---- MODULE Spec2Model ----
(***************************************************************************)
(* The ingestion layer of SeqRecBenchmark-Datasets: the tabular readers    *)
(* (read_csv in its two variants), the JSON readers (read_json of Yelp and *)
(* of Steam) and the _load_data method of the nine dataset processors.     *)
(*                                                                         *)
(* A raw text is a sequence of symbols (one-character strings, or a whole  *)
(* word where the code never looks inside it).  A DataFrame is a record    *)
(* [columns, rows]; a row keeps its pandas index label (idx) and its cells *)
(* in column order.  Integers of TLC are 32 bit, so a datetime is          *)
(* kept as seconds since the epoch (n) plus microseconds (f) and not as    *)
(* one nanosecond count.                                                   *)
(***************************************************************************)
EXTENDS Integers, Sequences, FiniteSets, TLC

(* ------------------------------ bounds --------------------------------- *)
\* data lines of a raw interaction file
MaxRows == 2
\* data lines of a raw metadata file
MaxMetaRows == 2
\* data lines of a MovieLens movies file
MaxMovieRows == 3
\* calls of _load_data on one processor
MaxCalls == 2

(* ------------------------------ cells ---------------------------------- *)
\* t: the Python / NumPy type of the value; n: integer payload; f: fraction
\* (thousandths of a float, microseconds of a datetime); s: text payload.
Cell(t, n, f, s) == [t |-> t, n |-> n, f |-> f, s |-> s]
NaN == Cell("nan", 0, 0, <<>>)
NaT == Cell("nat", 0, 0, <<>>)
IntV(k) == Cell("int", k, 0, <<>>)
FloatV(k, m) == Cell("float", k, m, <<>>)
StrV(x) == Cell("str", 0, 0, x)
BoolV(b) == Cell("bool", IF b THEN 1 ELSE 0, 0, <<>>)
DatetimeV(sec, us) == Cell("datetime", sec, us, <<>>)
\* the int64 minimum, NaT's integer view, after a floor division: it is
\* outside the integers of TLC and is carried as a marked int.
INaT == Cell("int", 0, 0, <<"iNaT">>)
\* a value that could not be converted: the conversion raises ValueError
Err == Cell("error", 0, 0, <<>>)
\* Series.isna / DataFrame.dropna: None, NaN and NaT are missing
IsNull(c) == c.t \in {"nan", "nat"}

(* ------------------------------ texts ---------------------------------- *)
Digits == <<"0", "1", "2", "3", "4", "5", "6", "7", "8", "9">>
IsDigit(c) == \E d \in 1..10 : Digits[d] = c
DigitVal(c) == (CHOOSE d \in 1..10 : Digits[d] = c) - 1
AllDigits(x) == Len(x) > 0 /\ \A i \in 1..Len(x) : IsDigit(x[i])

RECURSIVE ParseNat(_)
ParseNat(x) ==
    IF Len(x) = 0 THEN 0
    ELSE 10 * ParseNat(SubSeq(x, 1, Len(x) - 1)) + DigitVal(x[Len(x)])

\* int("..."): an optional sign and decimal digits
IsIntText(x) ==
    \/ AllDigits(x)
    \/ Len(x) > 1 /\ x[1] = "-" /\ AllDigits(Tail(x))
ParseInt(x) == IF x[1] = "-" THEN 0 - ParseNat(Tail(x)) ELSE ParseNat(x)

\* position of the decimal point, 0 when there is none
DotPos(x) ==
    IF \E i \in 1..Len(x) : x[i] = "."
    THEN CHOOSE i \in 1..Len(x) : x[i] = "." /\ \A j \in 1..(i - 1) : x[j] # "."
    ELSE 0
\* float("..."): digits, or digits "." up to three digits (kept in thousandths)
IsFloatText(x) ==
    \/ IsIntText(x)
    \/ LET p == DotPos(x) IN
         /\ p > 1
         /\ AllDigits(SubSeq(x, 1, p - 1))
         /\ Len(x) - p \in 1..3
         /\ AllDigits(SubSeq(x, p + 1, Len(x)))
ParseFloat(x) ==
    LET p == DotPos(x) IN
      IF p = 0 THEN FloatV(ParseInt(x), 0)
      ELSE LET frac == SubSeq(x, p + 1, Len(x))
               scale == IF Len(frac) = 1 THEN 100 ELSE IF Len(frac) = 2 THEN 10 ELSE 1
           IN FloatV(ParseNat(SubSeq(x, 1, p - 1)), ParseNat(frac) * scale)

RECURSIVE NatToText(_)
NatToText(k) ==
    IF k < 10 THEN <<Digits[k + 1]>>
    ELSE Append(NatToText(k \div 10), Digits[(k % 10) + 1])
\* str(int)
IntToText(k) == IF k < 0 THEN <<"-">> \o NatToText(0 - k) ELSE NatToText(k)
\* str(float) of a non-negative float kept in thousandths: 1.0, 1.5, 1.25
FloatToText(k, m) ==
    LET frac == IF m % 100 = 0 THEN <<Digits[(m \div 100) + 1]>>
                ELSE IF m % 10 = 0
                     THEN <<Digits[(m \div 100) + 1], Digits[((m \div 10) % 10) + 1]>>
                     ELSE <<Digits[(m \div 100) + 1], Digits[((m \div 10) % 10) + 1],
                            Digits[(m % 10) + 1]>>
    IN NatToText(k) \o <<".">> \o frac

TNan == <<"n", "a", "n">>
\* the texts pandas.read_csv reads as a missing value (its default na_values)
NAStrings == {<<>>, TNan, <<"N", "a", "N">>, <<"N", "A">>, <<"n", "u", "l", "l">>,
              <<"N", "U", "L", "L">>, <<"N", "o", "n", "e">>}
IsNAText(x) == x \in NAStrings

(* ---------------------------- DataFrames -------------------------------- *)
EmptyDF == [columns |-> <<>>, rows |-> <<>>]
Ok(df) == [ok |-> TRUE, err |-> "", df |-> df]
Fail(e) == [ok |-> FALSE, err |-> e, df |-> EmptyDF]

HasCol(cols, name) == \E i \in 1..Len(cols) : cols[i] = name
ColPos(cols, name) == CHOOSE i \in 1..Len(cols) : cols[i] = name
\* df[name] of one row
NoNull(r) == \A j \in 1..Len(r.cells) : ~IsNull(r.cells[j])
HasErr(rows) == \E i \in 1..Len(rows) : \E j \in 1..Len(rows[i].cells) : rows[i].cells[j] = Err

\* df.dropna(): a row with a missing value in any column is removed
DropNa(df) == [df EXCEPT !.rows = SelectSeq(df.rows, NoNull)]

\* df[[names]]: the named columns, in the order asked for
Project(df, names) ==
    [columns |-> names,
     rows |-> [i \in 1..Len(df.rows) |->
                 [idx |-> df.rows[i].idx,
                  cells |-> [j \in 1..Len(names) |->
                               df.rows[i].cells[ColPos(df.columns, names[j])]]]]]

\* df[name] = F(df[name]), cell by cell
MapCol(df, name, F(_)) ==
    LET p == ColPos(df.columns, name) IN
      [df EXCEPT !.rows = [i \in 1..Len(df.rows) |->
          [df.rows[i] EXCEPT !.cells[p] = F(@)]]]

\* df[mask]: the rows that satisfy Keep
Filter(df, Keep(_)) == [df EXCEPT !.rows = SelectSeq(df.rows, Keep)]

\* Series.astype(typ), one value; Err where pandas raises
AsType(c, typ) ==
    IF typ = "int" THEN
        IF c.t = "int" THEN c
        ELSE IF c.t = "float" THEN IntV(c.n)
        ELSE IF c.t = "str" /\ IsIntText(c.s) THEN IntV(ParseInt(c.s))
        ELSE Err
    ELSE IF typ = "float" THEN
        IF c.t = "float" \/ c.t = "nan" THEN c
        ELSE IF c.t = "int" THEN FloatV(c.n, 0)
        ELSE IF c.t = "str" /\ IsFloatText(c.s) THEN ParseFloat(c.s)
        ELSE Err
    ELSE \* str
        IF c.t = "str" THEN c
        ELSE IF c.t = "nan" THEN StrV(TNan)
        ELSE IF c.t = "int" THEN StrV(IntToText(c.n))
        ELSE IF c.t = "float" THEN StrV(FloatToText(c.n, c.f))
        ELSE Err
\* a variant of the cast that leaves a float as it is
AsInt64KeepsFloat(c) == IF c.t = "float" THEN c ELSE AsType(c, "int")
AsInt64(c) == AsType(c, "int")
AsStr(c) == AsType(c, "str")

(* ------------------- read_csv, the names / dtype variant ---------------- *)
\* header=None
NoHeader == -1

\* the parser's conversion of one field under dtype=typ
ConvertDtype(x, typ) ==
    IF IsNAText(x) THEN (IF typ = "int" THEN Err ELSE NaN)
    ELSE IF typ = "int" THEN (IF IsIntText(x) THEN IntV(ParseInt(x)) ELSE Err)
    ELSE IF typ = "float" THEN (IF IsFloatText(x) THEN ParseFloat(x) ELSE Err)
    ELSE StrV(x)

\* the lines after the header line (header=0), or all lines (header=None)
DataLines(file, header) ==
    IF header = NoHeader THEN file.lines
    ELSE IF Len(file.lines) = 0 THEN <<>> ELSE Tail(file.lines)

\* A byte that is not valid UTF-8, and the character U+FFFD that
\* errors="replace" puts in its place
InvalidByte == "0xFF"
ReplacementChar == "U+FFFD"
\* bytes.decode("utf-8", errors="replace") of one field
DecodeReplace(text) ==
    [k \in 1..Len(text) |-> IF text[k] = InvalidByte THEN ReplacementChar ELSE text[k]]
\* encoding="utf-8", encoding_errors="replace": the lines read_csv parses
DecodeFile(file) ==
    [exists |-> file.exists,
     lines |-> [i \in 1..Len(file.lines) |->
                  [j \in 1..Len(file.lines[i]) |-> DecodeReplace(file.lines[i][j])]]]

\* read_csv(file_path, delimiter, columns, types, header) of Douban, Gowalla
\* and MovieLens.  Every line of the file has one field per column.
ReadCsvNames(file, columns, types, header) ==
    IF ~file.exists THEN Fail("FileNotFoundError")
    ELSE
      LET data == DataLines(DecodeFile(file), header)
          rows == [i \in 1..Len(data) |->
                     [idx |-> i - 1,
                      cells |-> [j \in 1..Len(columns) |->
                                   ConvertDtype(data[i][j], types[j])]]]
      IN IF HasErr(rows) THEN Fail("ValueError")
         ELSE Ok(DropNa([columns |-> columns, rows |-> rows]))

(* ------------------ read_csv, the usecols / astype variant -------------- *)
\* the set of positions as an ascending sequence: pandas returns the selected
\* columns in the order of the file, whatever the order of usecols
RECURSIVE Ascending(_)
Ascending(S) ==
    IF S = {} THEN <<>>
    ELSE LET m == CHOOSE x \in S : \A y \in S : x <= y
         IN <<m>> \o Ascending(S \ {m})

\* usecols as positions (1-based) of the file's columns; {0} marks a selected
\* column that the file does not have
UsecolsPositions(sel_cols, names, width) ==
    IF Len(sel_cols) > 0 /\ sel_cols[1].t = "int"
    THEN IF \A k \in 1..Len(sel_cols) : sel_cols[k].n < width
         THEN {sel_cols[k].n + 1 : k \in 1..Len(sel_cols)}
         ELSE {0}
    ELSE IF \A k \in 1..Len(sel_cols) : \E p \in 1..Len(names) : names[p] = sel_cols[k].s
         THEN {p \in 1..Len(names) : \E k \in 1..Len(sel_cols) : names[p] = sel_cols[k].s}
         ELSE {0}

\* the dtype the parser infers for a column without dtype=
InferKind(data, p) ==
    IF Len(data) = 0 THEN "object"
    ELSE IF \A i \in 1..Len(data) : IsIntText(data[i][p]) THEN "int"
    ELSE IF \A i \in 1..Len(data) : IsNAText(data[i][p]) \/ IsFloatText(data[i][p])
         THEN "float"
    ELSE "object"
InferCell(kind, x) ==
    IF kind = "int" THEN IntV(ParseInt(x))
    ELSE IF IsNAText(x) THEN NaN
    ELSE IF kind = "float" THEN ParseFloat(x)
    ELSE StrV(x)

\* read_csv(file_path, delimiter, sel_cols, columns, types, header) of Food,
\* KuaiRec, RetailRocket and YooChoose: read, rename, astype, dropna.
ReadCsvUsecols(file, sel_cols, columns, types, header) ==
    IF ~file.exists THEN Fail("FileNotFoundError")
    ELSE IF Len(file.lines) = 0 THEN Fail("EmptyDataError")
    ELSE
      LET names == IF header = NoHeader THEN <<>> ELSE DecodeFile(file).lines[1]
          data == DataLines(DecodeFile(file), header)
          posSet == UsecolsPositions(sel_cols, names, Len(file.lines[1]))
          pos == Ascending(posSet)
          kinds == [j \in 1..Len(pos) |-> InferKind(data, pos[j])]
          rows == [i \in 1..Len(data) |->
                     [idx |-> i - 1,
                      cells |-> [j \in 1..Len(pos) |->
                                   AsType(InferCell(kinds[j], data[i][pos[j]]),
                                          types[j])]]]
      IN IF 0 \in posSet THEN Fail("ValueError")
         ELSE IF Len(pos) # Len(columns) THEN Fail("ValueError")
         ELSE IF HasErr(rows) THEN Fail("ValueError")
         ELSE Ok(DropNa([columns |-> columns, rows |-> rows]))

(* ------------------------- timestamps ----------------------------------- *)
IsLeap(y) == (y % 4 = 0 /\ y % 100 # 0) \/ y % 400 = 0
DaysInMonth(y, m) ==
    IF m = 2 THEN (IF IsLeap(y) THEN 29 ELSE 28)
    ELSE IF m \in {4, 6, 9, 11} THEN 30 ELSE 31
\* days from 1970-01-01 to y-m-d (proleptic Gregorian calendar)
DaysFromCivil(y, m, d) ==
    LET yy == IF m <= 2 THEN y - 1 ELSE y
        era == yy \div 400
        yoe == yy - era * 400
        mp == IF m > 2 THEN m - 3 ELSE m + 9
        doy == (153 * mp + 2) \div 5 + d - 1
        doe == yoe * 365 + yoe \div 4 - yoe \div 100 + doy
    IN era * 146097 + doe - 719468

\* A format is a sequence of directives ("%Y", "%m", ...) and literal symbols.
FmtDate == <<"%Y", "-", "%m", "-", "%d">>
FmtGowalla == <<"%Y", "-", "%m", "-", "%d", "T", "%H", ":", "%M", ":", "%S", "Z">>
FmtYooChoose ==
    <<"%Y", "-", "%m", "-", "%d", "T", "%H", ":", "%M", ":", "%S", ".", "%f", "Z">>

\* digits a directive takes from text x at position i, 0 when it does not match:
\* four for the year, two for the zero-padded fields, one to six for %f
Width(d, x, i) ==
    LET run(k) == i + k - 1 <= Len(x) /\ \A j \in i..(i + k - 1) : IsDigit(x[j])
    IN IF d = "%Y" THEN (IF run(4) THEN 4 ELSE 0)
       ELSE IF d = "%f"
            THEN (IF run(1) THEN CHOOSE k \in 1..6 : run(k) /\ (k = 6 \/ ~run(k + 1)) ELSE 0)
       ELSE (IF run(2) THEN 2 ELSE 0)

NoFields == [Y |-> 1970, m |-> 1, d |-> 1, H |-> 0, M |-> 0, S |-> 0, f |-> 0, ok |-> TRUE]
Pad6(v, w) ==
    IF w = 1 THEN v * 100000 ELSE IF w = 2 THEN v * 10000 ELSE IF w = 3 THEN v * 1000
    ELSE IF w = 4 THEN v * 100 ELSE IF w = 5 THEN v * 10 ELSE v
\* match text x from position i against format fmt from directive k
RECURSIVE Strptime(_, _, _, _, _)
Strptime(x, i, fmt, k, acc) ==
    IF k > Len(fmt) THEN [acc EXCEPT !.ok = (i = Len(x) + 1)]
    ELSE IF fmt[k] \in {"%Y", "%m", "%d", "%H", "%M", "%S", "%f"} THEN
        LET w == Width(fmt[k], x, i)
            v == ParseNat(SubSeq(x, i, i + w - 1))
        IN IF w = 0 THEN [acc EXCEPT !.ok = FALSE]
           ELSE Strptime(x, i + w, fmt, k + 1,
                  IF fmt[k] = "%Y" THEN [acc EXCEPT !.Y = v]
                  ELSE IF fmt[k] = "%m" THEN [acc EXCEPT !.m = v]
                  ELSE IF fmt[k] = "%d" THEN [acc EXCEPT !.d = v]
                  ELSE IF fmt[k] = "%H" THEN [acc EXCEPT !.H = v]
                  ELSE IF fmt[k] = "%M" THEN [acc EXCEPT !.M = v]
                  ELSE IF fmt[k] = "%S" THEN [acc EXCEPT !.S = v]
                  ELSE [acc EXCEPT !.f = Pad6(v, w)])
    ELSE IF i <= Len(x) /\ x[i] = fmt[k] THEN Strptime(x, i + 1, fmt, k + 1, acc)
    ELSE [acc EXCEPT !.ok = FALSE]

ValidFields(p) ==
    /\ p.ok
    /\ p.m \in 1..12
    /\ p.d \in 1..DaysInMonth(p.Y, p.m)
    /\ p.H < 24 /\ p.M < 60 /\ p.S < 60

\* the texts pandas.to_datetime reads as NaT
NaTStrings == {<<>>, TNan, <<"N", "a", "N">>, <<"N", "a", "T">>}

\* pd.to_datetime(series, format=fmt), one value; Err where it raises
ToDatetime(c, fmt) ==
    IF c.t = "datetime" \/ c.t = "nat" THEN c
    ELSE IF c.t = "nan" THEN NaT
    ELSE IF c.t # "str" THEN Err
    ELSE IF c.s \in NaTStrings THEN NaT
    ELSE LET p == Strptime(c.s, 1, fmt, 1, NoFields) IN
           IF ValidFields(p)
           THEN DatetimeV(DaysFromCivil(p.Y, p.m, p.d) * 86400
                            + p.H * 3600 + p.M * 60 + p.S, p.f)
           ELSE Err

\* a variant of the division below that divides by 10**10
NsFloorDivE10(c) == IF c.t = "nat" THEN INaT ELSE IntV(c.n \div 10)
\* series.astype("int64") // 10**9 of a datetime64[ns] value: whole seconds
NsFloorDivE9(c) == IF c.t = "nat" THEN INaT ELSE IntV(c.n)
\* a variant of the division below that divides by 10**9
NsFloorDivE6AsSeconds(c) == IF c.t = "nat" THEN INaT ELSE IntV(c.n)
\* series.astype("int64") // 10**6 of a datetime64[ns] value: milliseconds
NsFloorDivE6(c) == IF c.t = "nat" THEN INaT ELSE IntV(c.n * 1000 + c.f \div 1000)

(* --------------------------- JSON readers ------------------------------- *)
\* A line of a JSON file is a sequence of tokens: punctuation, whitespace,
\* keys (strings) and values (int, float, str, or None/null as NaN).
Ws == Cell("ws", 0, 0, <<>>)
Punct(p) == Cell("punct", 0, 0, <<p>>)
IsValueTok(c) == c.t \in {"int", "float", "str", "nan"}

\* str.strip()
RECURSIVE StripLeft(_)
StripLeft(x) == IF Len(x) > 0 /\ x[1] = Ws THEN StripLeft(Tail(x)) ELSE x
RECURSIVE StripRight(_)
StripRight(x) ==
    IF Len(x) > 0 /\ x[Len(x)] = Ws THEN StripRight(SubSeq(x, 1, Len(x) - 1)) ELSE x
Strip(x) == StripRight(StripLeft(x))

\* { key : value , key : value ... }
IsDictLiteral(x) ==
    LET n == Len(x)
        m == n - 2
    IN /\ n >= 2
       /\ x[1] = Punct("{")
       /\ x[n] = Punct("}")
       /\ m = 0 \/ m % 4 = 3
       /\ \A j \in 1..m :
            IF j % 4 = 1 THEN x[j + 1].t = "str"
            ELSE IF j % 4 = 2 THEN x[j + 1] = Punct(":")
            ELSE IF j % 4 = 3 THEN IsValueTok(x[j + 1])
            ELSE x[j + 1] = Punct(",")
\* ast.literal_eval(line): a dictionary (its items in order), another literal
\* (a lone value), or an exception
LiteralEval(x) ==
    IF IsDictLiteral(x)
    THEN [ok |-> TRUE, isdict |-> TRUE,
          items |-> [k \in 1..((Len(x) - 1) \div 4) |-> <<x[4 * k - 2].s[1], x[4 * k]>>]]
    ELSE IF Len(x) = 1 /\ IsValueTok(x[1])
    THEN [ok |-> TRUE, isdict |-> FALSE, items |-> <<>>]
    ELSE [ok |-> FALSE, isdict |-> FALSE, items |-> <<>>]
Literal(ev) == [isdict |-> ev.isdict, items |-> ev.items]

\* a variant of the line loop below that ends at the first line that fails
\* to parse
RECURSIVE LineLoopStopsAtError(_, _, _, _)
LineLoopStopsAtError(lines, i, data, diag) ==
    IF i > Len(lines) THEN [data |-> data, diag |-> diag]
    ELSE LET line == Strip(lines[i])
             ev == LiteralEval(line)
         IN IF Len(line) = 0 THEN LineLoopStopsAtError(lines, i + 1, data, diag)
            ELSE IF ev.ok
                 THEN LineLoopStopsAtError(lines, i + 1, Append(data, Literal(ev)), diag)
            ELSE [data |-> data, diag |-> Append(diag, [line |-> line, at |-> i])]
\* a variant of the line loop below that reports blank lines too
RECURSIVE LineLoopReportsBlank(_, _, _, _)
LineLoopReportsBlank(lines, i, data, diag) ==
    IF i > Len(lines) THEN [data |-> data, diag |-> diag]
    ELSE LET line == Strip(lines[i])
             ev == LiteralEval(line)
         IN IF ev.ok
            THEN LineLoopReportsBlank(lines, i + 1, Append(data, Literal(ev)), diag)
            ELSE LineLoopReportsBlank(lines, i + 1, data,
                                      Append(diag, [line |-> line, at |-> i]))
\* the line loop of read_json(standard=False): from line i on, with the
\* records appended (data) and the lines reported (diag) so far
RECURSIVE LineLoop(_, _, _, _)
LineLoop(lines, i, data, diag) ==
    IF i > Len(lines) THEN [data |-> data, diag |-> diag]
    ELSE LET line == Strip(lines[i])
             ev == LiteralEval(line)
         IN IF Len(line) = 0 THEN LineLoop(lines, i + 1, data, diag)
            ELSE IF ev.ok THEN LineLoop(lines, i + 1, Append(data, Literal(ev)), diag)
            ELSE LineLoop(lines, i + 1, data,
                          Append(diag, [line |-> line, at |-> i]))

\* the keys of the records, each once, in order of first appearance
RECURSIVE UnionKeys(_, _, _, _)
UnionKeys(data, i, k, cols) ==
    IF i > Len(data) THEN cols
    ELSE IF k > Len(data[i].items) THEN UnionKeys(data, i + 1, 1, cols)
    ELSE UnionKeys(data, i, k + 1,
                   IF HasCol(cols, data[i].items[k][1]) THEN cols
                   ELSE Append(cols, data[i].items[k][1]))
Lookup(items, name) ==
    IF \E k \in 1..Len(items) : items[k][1] = name
    THEN items[CHOOSE k \in 1..Len(items) : items[k][1] = name][2]
    ELSE NaN

\* the dtype pd.DataFrame gives a column: a column of integers with a missing
\* value (None, or a record without the key) is float64, so its integers
\* become floats; a column that holds a string is object and keeps its values
Upcast(data, name, c) ==
    IF /\ c.t = "int"
       /\ \A i \in 1..Len(data) : Lookup(data[i].items, name).t \in {"int", "float", "nan"}
       /\ \E i \in 1..Len(data) : Lookup(data[i].items, name).t \in {"float", "nan"}
    THEN FloatV(c.n, 0) ELSE c
\* pd.DataFrame(data) of a list of parsed literals
DataFrameOf(data) ==
    IF Len(data) = 0 THEN Ok(EmptyDF)
    ELSE IF ~data[1].isdict
         THEN Ok([columns |-> <<"0">>,
                  rows |-> [i \in 1..Len(data) |-> [idx |-> i - 1, cells |-> <<Cell("absent", 0, 0, <<>>)>>]]])
    ELSE IF \E i \in 1..Len(data) : ~data[i].isdict THEN Fail("AttributeError")
    ELSE LET cols == UnionKeys(data, 1, 1, <<>>) IN
           Ok([columns |-> cols,
               rows |-> [i \in 1..Len(data) |->
                           [idx |-> i - 1,
                            cells |-> [j \in 1..Len(cols) |->
                                         Upcast(data, cols[j],
                                                Lookup(data[i].items, cols[j]))]]]])

\* a variant of the selection below that returns an empty table when a
\* selected column is absent
SelectAndDropLenient(res, selected_cols) ==
    IF ~res.ok THEN res
    ELSE IF \E k \in 1..Len(selected_cols) : ~HasCol(res.df.columns, selected_cols[k])
         THEN Ok([columns |-> selected_cols, rows |-> <<>>])
    ELSE Ok(DropNa(Project(res.df, selected_cols)))
\* df = df[selected_cols]; df = df.dropna()
SelectAndDrop(res, selected_cols) ==
    IF ~res.ok THEN res
    ELSE IF \E k \in 1..Len(selected_cols) : ~HasCol(res.df.columns, selected_cols[k])
         THEN Fail("KeyError")
    ELSE Ok(DropNa(Project(res.df, selected_cols)))

\* a file opened with encoding="utf-8" and the default errors="strict":
\* reading it raises UnicodeDecodeError when a byte is not valid UTF-8
StrictDecodeFails(file) ==
    \E i \in 1..Len(file.lines) : \E j \in 1..Len(file.lines[i]) :
      \E k \in 1..Len(file.lines[i][j].s) : file.lines[i][j].s[k] = InvalidByte

\* pd.read_json(file_path, lines=True): blank lines are skipped, a line that
\* is no JSON object fails the read
PdReadJson(file) ==
    LET loop == LineLoop(file.lines, 1, <<>>, <<>>) IN
      IF ~file.exists THEN Fail("FileNotFoundError")
      ELSE IF StrictDecodeFails(file) THEN Fail("UnicodeDecodeError")
      ELSE IF Len(loop.diag) > 0 THEN Fail("ValueError")
      ELSE IF \E i \in 1..Len(loop.data) : ~loop.data[i].isdict THEN Fail("ValueError")
      ELSE DataFrameOf(loop.data)

\* read_json(file_path, selected_cols) of Yelp
ReadJsonYelp(file, selected_cols) == SelectAndDrop(PdReadJson(file), selected_cols)

\* read_json(file_path, selected_cols, standard) of Steam; diag is what
\* the reader prints
ReadJsonSteam(file, selected_cols, standard) ==
    IF ~file.exists THEN [res |-> Fail("FileNotFoundError"), diag |-> <<>>]
    ELSE IF standard
    THEN [res |-> SelectAndDrop(PdReadJson(file), selected_cols), diag |-> <<>>]
    ELSE IF StrictDecodeFails(file)
    THEN [res |-> Fail("UnicodeDecodeError"), diag |-> <<>>]
    ELSE LET loop == LineLoop(file.lines, 1, <<>>, <<>>) IN
           [res |-> SelectAndDrop(DataFrameOf(loop.data), selected_cols),
            diag |-> loop.diag]

(* ------------------------ metadata clean-up ----------------------------- *)
IsSpace(c) == c \in {" ", "\t"}

\* bool(value), as the cast of an object column to bool computes it
Truthy(c) ==
    IF IsNull(c) THEN FALSE
    ELSE IF c.t = "str" THEN Len(c.s) > 0
    ELSE IF c.t \in {"int", "bool"} THEN c.n # 0
    ELSE TRUE
\* bool_series & object_series: the right side is cast to bool
PyAnd(a, c) == BoolV(a.n = 1 /\ Truthy(c))
\* series != scalar, element by element: values of different types differ
PyNe(x, y) == BoolV(x # y)

\* item2title["Title"].notna() & item2title["Title"] != "nan", which Python
\* reads as (notna & Title) != "nan"
TitleMask(r, p) == PyNe(PyAnd(BoolV(~IsNull(r.cells[p])), r.cells[p]), StrV(TNan)).n = 1
FilterTitle(df) ==
    LET p == ColPos(df.columns, "Title") IN
      [df EXCEPT !.rows = SelectSeq(df.rows, LAMBDA r : TitleMask(r, p))]

\* length of a match of \s*\(\d{4}\) at position i, 0 when there is none
YearMatch(x, i) ==
    LET w == IF i <= Len(x) /\ IsSpace(x[i])
             THEN CHOOSE k \in 1..(Len(x) - i + 1) :
                    /\ \A j \in i..(i + k - 1) : IsSpace(x[j])
                    /\ (i + k > Len(x) \/ ~IsSpace(x[i + k]))
             ELSE 0
        j == i + w
    IN IF /\ j + 5 <= Len(x)
          /\ x[j] = "("
          /\ \A d \in 1..4 : IsDigit(x[j + d])
          /\ x[j + 5] = ")"
       THEN w + 6 ELSE 0
\* str.replace(r"\s*\(\d{4}\)", "", regex=True): every match is removed
RECURSIVE RemoveYear(_, _)
RemoveYear(x, i) ==
    IF i > Len(x) THEN <<>>
    ELSE IF YearMatch(x, i) > 0 THEN RemoveYear(x, i + YearMatch(x, i))
    ELSE <<x[i]>> \o RemoveYear(x, i + 1)
\* a variant of the clean-up that keeps the year
MovielensKeepsYear(c) == c
MovielensCleanTitle(c) == IF c.t = "str" THEN StrV(RemoveYear(c.s, 1)) ELSE c

RECURSIVE StripSpaceLeft(_)
StripSpaceLeft(x) == IF Len(x) > 0 /\ IsSpace(x[1]) THEN StripSpaceLeft(Tail(x)) ELSE x
RECURSIVE StripSpaceRight(_)
StripSpaceRight(x) ==
    IF Len(x) > 0 /\ IsSpace(x[Len(x)])
    THEN StripSpaceRight(SubSeq(x, 1, Len(x) - 1)) ELSE x
\* str.replace(r"\s+", " ", regex=True)
RECURSIVE CollapseSpace(_, _)
CollapseSpace(x, i) ==
    IF i > Len(x) THEN <<>>
    ELSE IF IsSpace(x[i])
         THEN IF i > 1 /\ IsSpace(x[i - 1]) THEN CollapseSpace(x, i + 1)
              ELSE <<" ">> \o CollapseSpace(x, i + 1)
    ELSE <<x[i]>> \o CollapseSpace(x, i + 1)
\* a variant of the clean-up below that strips and does not collapse
FoodStripOnly(c) ==
    IF c.t = "str" THEN StrV(StripSpaceRight(StripSpaceLeft(c.s))) ELSE c
\* .str.strip().str.replace(r"\s+", " ", regex=True)
FoodCleanTitle(c) ==
    IF c.t = "str" THEN StrV(CollapseSpace(StripSpaceRight(StripSpaceLeft(c.s)), 1)) ELSE c

(* --------------------------- the processors ----------------------------- *)
\* item2title is a DataFrame or None
PyNone == [isNone |-> TRUE, df |-> EmptyDF]
Some(df) == [isNone |-> FALSE, df |-> df]

\* what a call of _load_data leaves: the pair it returns, or the exception
\* nreads counts the reader calls the call of _load_data has made
Returned(inter, meta, diag) ==
    [outcome |-> "returned", error |-> "", interactions |-> inter,
     item2title |-> meta, diag |-> diag, nreads |-> 1]
Raised(e, diag) ==
    [outcome |-> "raised", error |-> e, interactions |-> EmptyDF,
     item2title |-> PyNone, diag |-> diag, nreads |-> 1]
\* the same outcome, reached after the second reader call
Second(out) == [out EXCEPT !.nreads = 2]

\* df.columns = names
Rename(df, names) == [df EXCEPT !.columns = names]
ThreeColumns == <<"UserID", "ItemID", "Timestamp">>

ToDate(c) == ToDatetime(c, FmtDate)
ToGowallaTime(c) == ToDatetime(c, FmtGowalla)
ToYooChooseTime(c) == ToDatetime(c, FmtYooChoose)

\* a variant of the selection that keeps all four columns
DoubanKeepsRating(df) == df
DoubanSelect(df) == Project(df, ThreeColumns)
DoubanLoadData(me, raw) ==
    LET r == ReadCsvNames(raw.inter, <<"UserID", "ItemID", "Rating", "Timestamp">>,
                          <<"int", "int", "float", "float">>, 0)
        cast == MapCol(r.df, "Timestamp", AsInt64)
    IN IF ~r.ok THEN Raised(r.err, <<>>)
       ELSE Returned(DoubanSelect(cast), PyNone, <<>>)

GowallaLoadData(me, raw) ==
    LET r == ReadCsvNames(raw.inter,
                          <<"UserID", "Timestamp", "Latitude", "Longitude", "ItemID">>,
                          <<"int", "str", "float", "float", "int">>, NoHeader)
        sel == Project(r.df, ThreeColumns)
        dt == MapCol(sel, "Timestamp", ToGowallaTime)
    IN IF ~r.ok THEN Raised(r.err, <<>>)
       ELSE IF HasErr(dt.rows) THEN Raised("ValueError", <<>>)
       ELSE Returned(MapCol(dt, "Timestamp", NsFloorDivE9), PyNone, <<>>)


\* a variant of the load below that reads RAW_recipes.csv whatever
\* meta_available is
FoodLoadDataAlwaysMeta(me, raw) ==
    LET r == ReadCsvUsecols(raw.inter, <<IntV(0), IntV(1), IntV(2)>>, ThreeColumns,
                            <<"int", "int", "str">>, 0)
        dt == MapCol(r.df, "Timestamp", ToDate)
        inter == MapCol(dt, "Timestamp", NsFloorDivE9)
        m == ReadCsvUsecols(raw.meta, <<IntV(0), IntV(1)>>, <<"Title", "ItemID">>,
                            <<"str", "int">>, 0)
    IN IF ~r.ok THEN Raised(r.err, <<>>)
       ELSE IF HasErr(dt.rows) THEN Raised("ValueError", <<>>)
       ELSE IF ~m.ok THEN Second(Raised(m.err, <<>>))
       ELSE IF ~me.meta_available THEN Second(Returned(inter, PyNone, <<>>))
       ELSE Second(Returned(inter, Some(MapCol(FilterTitle(Project(m.df, <<"ItemID", "Title">>)),
                                               "Title", FoodCleanTitle)), <<>>))
FoodLoadData(me, raw) ==
    LET r == ReadCsvUsecols(raw.inter, <<IntV(0), IntV(1), IntV(2)>>, ThreeColumns,
                            <<"int", "int", "str">>, 0)
        dt == MapCol(r.df, "Timestamp", ToDate)
        inter == MapCol(dt, "Timestamp", NsFloorDivE9)
        m == ReadCsvUsecols(raw.meta, <<IntV(0), IntV(1)>>, <<"Title", "ItemID">>,
                            <<"str", "int">>, 0)
        kept == FilterTitle(Project(m.df, <<"ItemID", "Title">>))
    IN IF ~r.ok THEN Raised(r.err, <<>>)
       ELSE IF HasErr(dt.rows) THEN Raised("ValueError", <<>>)
       ELSE IF ~me.meta_available THEN Returned(inter, PyNone, <<>>)
       ELSE IF ~m.ok THEN Second(Raised(m.err, <<>>))
       ELSE Second(Returned(inter, Some(MapCol(kept, "Title", FoodCleanTitle)), <<>>))

\* the attributes MovielensDatasetProcessor.__init__ assigns
FormatAttrs == {"delimiter", "file_suffix", "header"}
KuaiRecColumns == <<"UserID", "ItemID", "Timestamp", "WatchRatio">>
KuaiRecSelCols ==
    <<StrV(<<"user_id">>), StrV(<<"video_id">>), StrV(<<"timestamp">>),
      StrV(<<"watch_ratio">>)>>
\* a variant of the concatenation that repeats the rows of a
ConcatTwice(a, b) == [a EXCEPT !.rows = a.rows \o a.rows \o b.rows]
\* pd.concat([a, b], axis=0): the rows of a, then the rows of b
Concat(a, b) == [a EXCEPT !.rows = a.rows \o b.rows]
\* a variant of the threshold below that drops the ratio 2.0
WatchedMoreThanTwice(r) == r.cells[4].n > 2 \/ (r.cells[4].n = 2 /\ r.cells[4].f > 0)
\* interactions["WatchRatio"] >= 2.0
WatchedTwice(r) == r.cells[4].n >= 2
\* interactions.drop(columns=["WatchRatio"])
KuaiRecDrop(df) == Project(df, ThreeColumns)
KuaiRecLoadData(me, raw) ==
    LET big == ReadCsvUsecols(raw.inter, KuaiRecSelCols, KuaiRecColumns,
                              <<"int", "int", "float", "float">>, 0)
        small == ReadCsvUsecols(raw.inter2, KuaiRecSelCols, KuaiRecColumns,
                                <<"int", "int", "float", "float">>, 0)
        all == Concat(big.df, small.df)
    IN IF ~big.ok THEN Raised(big.err, <<>>)
       ELSE IF ~small.ok THEN Second(Raised(small.err, <<>>))
       ELSE Second(Returned(KuaiRecDrop(Filter(all, WatchedTwice)), PyNone, <<>>))

\* a variant of the constructor below that selects the .csv format for every
\* name
MovielensInitAllCsv(dataset_name, meta_available) ==
    [proc |-> "Movielens", dataset_name |-> dataset_name,
     meta_available |-> meta_available, attrs |-> FormatAttrs,
     delimiter |-> ",", file_suffix |-> ".csv", header |-> 0,
     ok |-> dataset_name # "movielens-100k"]
\* a variant of the constructor below that reads an unknown name as a
\* .csv variant
MovielensInitLenient(dataset_name, meta_available) ==
    IF dataset_name \in {"movielens-1m", "movielens-10m"}
    THEN [proc |-> "Movielens", dataset_name |-> dataset_name,
          meta_available |-> meta_available, attrs |-> FormatAttrs,
          delimiter |-> "::", file_suffix |-> ".dat", header |-> NoHeader, ok |-> TRUE]
    ELSE [proc |-> "Movielens", dataset_name |-> dataset_name,
          meta_available |-> meta_available, attrs |-> FormatAttrs,
          delimiter |-> ",", file_suffix |-> ".csv", header |-> 0, ok |-> TRUE]
\* MovielensDatasetProcessor.__init__: the format of the variant; ok is
\* FALSE when the constructor raises ValueError, and then no attribute of the
\* format has been assigned
MovielensInit(dataset_name, meta_available) ==
    IF dataset_name \in {"movielens-1m", "movielens-10m"}
    THEN [proc |-> "Movielens", dataset_name |-> dataset_name,
          meta_available |-> meta_available, attrs |-> FormatAttrs,
          delimiter |-> "::", file_suffix |-> ".dat", header |-> NoHeader, ok |-> TRUE]
    ELSE IF dataset_name \in {"movielens-20m", "movielens-25m", "movielens-32m"}
    THEN [proc |-> "Movielens", dataset_name |-> dataset_name,
          meta_available |-> meta_available, attrs |-> FormatAttrs,
          delimiter |-> ",", file_suffix |-> ".csv", header |-> 0, ok |-> TRUE]
    ELSE [proc |-> "Movielens", dataset_name |-> dataset_name,
          meta_available |-> meta_available, attrs |-> {},
          delimiter |-> "", file_suffix |-> "", header |-> NoHeader, ok |-> FALSE]

MovielensLoadData(me, raw) ==
    LET r == ReadCsvNames(raw.inter, <<"UserID", "ItemID", "Rating", "Timestamp">>,
                          <<"int", "int", "int", "str">>, me.header)
        cast == MapCol(Project(r.df, ThreeColumns), "Timestamp", AsInt64)
        m == ReadCsvNames(raw.meta, <<"ItemID", "Title", "Genres">>,
                          <<"int", "str", "str">>, me.header)
        kept == FilterTitle(Project(m.df, <<"ItemID", "Title">>))
    IN IF ~r.ok THEN Raised(r.err, <<>>)
       ELSE IF HasErr(cast.rows) THEN Raised("ValueError", <<>>)
       ELSE IF ~me.meta_available THEN Returned(cast, PyNone, <<>>)
       ELSE IF ~m.ok THEN Second(Raised(m.err, <<>>))
       ELSE Second(Returned(cast, Some(MapCol(kept, "Title", MovielensCleanTitle)), <<>>))

TView == <<"view">>
\* a variant of the mask below that keeps every event
KeepsEveryEvent(r) == TRUE
\* interactions["Event"] == "view"
IsView(r) == r.cells[3] = StrV(TView)
RetailRocketLoadData(me, raw) ==
    LET r == ReadCsvUsecols(raw.inter,
                            <<StrV(<<"timestamp">>), StrV(<<"visitorid">>),
                              StrV(<<"event">>), StrV(<<"itemid">>)>>,
                            <<"Timestamp", "UserID", "Event", "ItemID">>,
                            <<"int", "int", "str", "int">>, 0)
    IN IF ~r.ok THEN Raised(r.err, <<>>)
       ELSE Returned(Project(Filter(r.df, IsView), ThreeColumns), PyNone, <<>>)

SteamLoadData(me, raw) ==
    LET r == ReadJsonSteam(raw.inter, <<"username", "product_id", "date">>, FALSE)
        dt == MapCol(Rename(r.res.df, ThreeColumns), "Timestamp", ToDate)
        inter == MapCol(MapCol(dt, "Timestamp", NsFloorDivE9), "ItemID", AsStr)
        m == ReadJsonSteam(raw.meta, <<"id", "title">>, FALSE)
        ids == MapCol(Rename(m.res.df, <<"ItemID", "Title">>), "ItemID", AsStr)
    IN IF ~r.res.ok THEN Raised(r.res.err, r.diag)
       ELSE IF HasErr(dt.rows) THEN Raised("ValueError", r.diag)
       ELSE IF ~me.meta_available THEN Returned(inter, PyNone, r.diag)
       ELSE IF ~m.res.ok THEN Second(Raised(m.res.err, r.diag \o m.diag))
       ELSE Second(Returned(inter, Some(FilterTitle(ids)), r.diag \o m.diag))

YelpLoadData(me, raw) ==
    LET r == ReadJsonYelp(raw.inter, <<"user_id", "business_id", "date">>)
        dt == MapCol(Rename(r.df, ThreeColumns), "Timestamp", ToDate)
        inter == MapCol(dt, "Timestamp", NsFloorDivE9)
        m == ReadJsonYelp(raw.meta, <<"business_id", "name">>)
    IN IF ~r.ok THEN Raised(r.err, <<>>)
       ELSE IF HasErr(dt.rows) THEN Raised("ValueError", <<>>)
       ELSE IF ~me.meta_available THEN Raised("UnboundLocalError", <<>>)
       ELSE IF ~m.ok THEN Second(Raised(m.err, <<>>))
       ELSE Second(Returned(inter, Some(FilterTitle(Rename(m.df, <<"ItemID", "Title">>))),
                            <<>>))

YooChooseLoadData(me, raw) ==
    LET r == ReadCsvUsecols(raw.inter, <<IntV(0), IntV(1), IntV(2)>>,
                            <<"UserID", "Timestamp", "ItemID">>,
                            <<"int", "str", "int">>, NoHeader)
        dt == MapCol(r.df, "Timestamp", ToYooChooseTime)
    IN IF ~r.ok THEN Raised(r.err, <<>>)
       ELSE IF HasErr(dt.rows) THEN Raised("ValueError", <<>>)
       ELSE Returned(Project(MapCol(dt, "Timestamp", NsFloorDivE6), ThreeColumns),
                     PyNone, <<>>)

(* ------------------------- raw input files ------------------------------ *)
\* A raw file: whether it is there, and its lines.  A line of a delimited
\* file is the sequence of its fields (texts); a line of a JSON file is a
\* sequence of tokens.
NoFile == [exists |-> FALSE, lines |-> <<>>]
File(lines) == [exists |-> TRUE, lines |-> lines]
SeqsUpTo(S, n) == UNION {[1..k -> S] : k \in 0..n}
\* the files with header line h and at most n data lines drawn from S
FilesWith(h, S, n) == {File(<<h>> \o d) : d \in SeqsUpTo(S, n)} \cup {NoFile}
\* the files without a header line
FilesOf(S, n) == {File(d) : d \in SeqsUpTo(S, n)} \cup {NoFile}
\* the lines a raw file may hold: well-formed ones (good), ones with a missing
\* value (missing), ones with a value of the wrong form (malformed), ones with
\* a byte that is not valid UTF-8 (garbled) and ones whose title is empty or not
\* whitespace-normalized (untidy)
AnyOf(L) == L.good \cup L.missing \cup L.malformed \cup L.garbled \cup L.untidy

TDate2003 == <<"2", "0", "0", "3", "-", "0", "2", "-", "1", "7">>
TDate1970 == <<"1", "9", "7", "0", "-", "0", "1", "-", "0", "2">>
TGowalla2010 == <<"2", "0", "1", "0", "-", "1", "0", "-", "1", "9", "T", "2", "3", ":", "5", "5", ":", "2", "7", "Z">>
TGowalla1970 == <<"1", "9", "7", "0", "-", "0", "1", "-", "0", "2", "T", "0", "0", ":", "0", "0", ":", "0", "1", "Z">>
TYoo1 == <<"1", "9", "7", "0", "-", "0", "1", "-", "0", "2", "T", "0", "0", ":", "0", "0", ":", "0", "1", ".", "1", "1", "7", "Z">>
TYoo2 == <<"1", "9", "7", "0", "-", "0", "1", "-", "0", "3", "T", "1", "0", ":", "2", "0", ":", "3", "0", ".", "5", "Z">>

DoubanHeader == <<<<"UserID">>, <<"ItemID">>, <<"Rating">>, <<"Timestamp">>>>
DoubanLines ==
    [good |-> { <<<<"1">>, <<"7">>, <<"4">>, <<"1", "0", "0", ".", "5">>>>,
                <<<<"2">>, <<"8">>, <<"5">>, <<"8", "6", "4", "0", "0">>>> },
     missing |-> { <<<<>>, <<"7">>, <<"4">>, <<"1", "0", "0", ".", "5">>>>,
                   <<<<"1">>, <<"7">>, <<"4">>, <<>>>> },
     malformed |-> { <<<<"x">>, <<"7">>, <<"4">>, <<"1", "0", "0", ".", "5">>>> },
     garbled |-> {},
     untidy |-> {}]

GowallaLines ==
    [good |-> { <<<<"1">>, TGowalla2010, <<"1", ".", "5">>, <<"2", ".", "5">>, <<"7">>>>,
                <<<<"2">>, TGowalla1970, <<"1", ".", "5">>, <<"2", ".", "5">>, <<"8">>>> },
     missing |-> { <<<<"1">>, <<>>, <<"1", ".", "5">>, <<"2", ".", "5">>, <<"7">>>>,
                   <<<<"1">>, TGowalla2010, <<"1", ".", "5">>, <<"2", ".", "5">>, <<>>>> },
     malformed |-> { <<<<"1">>, TDate2003, <<"1", ".", "5">>, <<"2", ".", "5">>, <<"7">>>> },
     garbled |-> {},
     untidy |-> {}]

FoodHeader == <<<<"user_id">>, <<"recipe_id">>, <<"date">>, <<"rating">>>>
FoodLines ==
    [good |-> { <<<<"1">>, <<"7">>, TDate2003, <<"5">>>>,
                <<<<"2">>, <<"8">>, TDate1970, <<"4">>>> },
     missing |-> { <<<<>>, <<"7">>, TDate2003, <<"5">>>>,
                   <<<<"1">>, <<"7">>, <<>>, <<"5">>>> },
     malformed |-> { <<<<"1">>, <<"7">>, TGowalla2010, <<"5">>>> },
     garbled |-> {},
     untidy |-> {}]
FoodMetaHeader == <<<<"name">>, <<"id">>, <<"minutes">>>>
FoodMetaLines ==
    [good |-> { <<<<" ", "apple", " ", " ", "pie">>, <<"7">>, <<"3", "0">>>> },
     missing |-> { <<TNan, <<"8">>, <<"3", "0">>>>,
                   <<<<>>, <<"9">>, <<"3", "0">>>>,
                   <<<<"soup">>, <<>>, <<"3", "0">>>> },
     malformed |-> {},
     garbled |-> { <<<<"pie", InvalidByte>>, <<"5">>, <<"3", "0">>>> },
     untidy |-> { <<<<" ", " ">>, <<"6">>, <<"3", "0">>>> }]

KuaiRecHeader ==
    <<<<"user_id">>, <<"video_id">>, <<"date">>, <<"timestamp">>, <<"watch_ratio">>>>
KuaiRecLines ==
    [good |-> { <<<<"1">>, <<"7">>, <<"d">>, <<"1", "0", "0", ".", "5">>, <<"1", ".", "0">>>>,
                <<<<"2">>, <<"8">>, <<"d">>, <<"2", "0", "0", ".", "2", "5">>, <<"2", ".", "0">>>>,
                <<<<"3">>, <<"9">>, <<"d">>, <<"3", "0", "0">>, <<"3", ".", "5">>>> },
     missing |-> { <<<<"1">>, <<"7">>, <<"d">>, <<>>, <<"2", ".", "5">>>> },
     malformed |-> {},
     garbled |-> {},
     untidy |-> {}]

MovielensNames ==
    {"movielens-1m", "movielens-10m", "movielens-20m", "movielens-25m", "movielens-32m"}
RatingsHeader == <<<<"userId">>, <<"movieId">>, <<"rating">>, <<"timestamp">>>>
RatingsLines ==
    [good |-> { <<<<"1">>, <<"7">>, <<"5">>, <<"1", "0", "0", "0">>>> },
     missing |-> { <<<<"1">>, <<"7">>, <<"5">>, <<>>>>,
                   <<<<"1">>, <<"7">>, <<>>, <<"1", "0", "0", "0">>>> },
     malformed |-> { <<<<"1">>, <<"7">>, <<"5">>, <<"x">>>> },
     garbled |-> {},
     untidy |-> {}]
MoviesHeader == <<<<"movieId">>, <<"title">>, <<"genres">>>>
TToyStory == <<"Toy", " ", "Story", " ", "(", "1", "9", "9", "5", ")">>
MoviesLines ==
    [good |-> { <<<<"1">>, TToyStory, <<"Comedy">>>> },
     missing |-> { <<<<"2">>, TNan, <<"Comedy">>>>,
                   <<<<"3">>, <<>>, <<"Comedy">>>> },
     malformed |-> {},
     garbled |-> { <<<<"5">>, <<"Heat", InvalidByte>>, <<"Drama">>>> },
     untidy |-> { <<<<"4">>, <<"(", "1", "9", "9", "5", ")">>, <<"Comedy">>>>,
                  <<<<"6">>, <<"(", "1", "9", "9", "5", ")", " ", "Heat">>, <<"Drama">>>> }]

EventsHeader ==
    <<<<"timestamp">>, <<"visitorid">>, <<"event">>, <<"itemid">>, <<"transactionid">>>>
EventsLines ==
    [good |-> { <<<<"5", "0", "0", "0">>, <<"1">>, TView, <<"7">>, <<>>>>,
                <<<<"6", "0", "0", "0">>, <<"2">>, <<"addtocart">>, <<"8">>, <<>>>>,
                <<<<"7", "0", "0", "0">>, <<"2">>, TView, <<"8">>, <<>>>> },
     missing |-> { <<<<"5", "0", "0", "0">>, <<"1">>, <<>>, <<"7">>, <<>>>>,
                   <<<<"5", "0", "0", "0">>, <<>>, TView, <<"7">>, <<>>>> },
     malformed |-> {},
     garbled |-> {},
     untidy |-> {}]

YooChooseLines ==
    [good |-> { <<<<"1">>, TYoo1, <<"7">>, <<"0">>>>,
                <<<<"2">>, TYoo2, <<"8">>, <<"0">>>> },
     missing |-> { <<<<"1">>, <<>>, <<"7">>, <<"0">>>> },
     malformed |-> { <<<<"1">>, TYoo1, <<"x">>, <<"0">>>>,
                     <<<<"1">>, TDate2003, <<"7">>, <<"0">>>> },
     garbled |-> {},
     untidy |-> {}]

\* { k1 : v1 , k2 : v2 , k3 : v3 }
Dict3(k1, v1, k2, v2, k3, v3) ==
    <<Punct("{"), StrV(<<k1>>), Punct(":"), v1, Punct(","), StrV(<<k2>>), Punct(":"), v2,
      Punct(","), StrV(<<k3>>), Punct(":"), v3, Punct("}")>>
Dict2(k1, v1, k2, v2) ==
    <<Punct("{"), StrV(<<k1>>), Punct(":"), v1, Punct(","), StrV(<<k2>>), Punct(":"), v2,
      Punct("}")>>
\* a line that lost its closing brace
Unbalanced(x) == SubSeq(x, 1, Len(x) - 1)

SteamReviewLines ==
    [good |-> { Dict3("username", StrV(<<"u1">>), "product_id", IntV(7), "date", StrV(TDate2003)),
                <<Ws>> \o Dict3("username", StrV(<<"u2">>), "product_id", StrV(<<"8">>),
                "date", StrV(TDate1970)) },
     missing |-> { Dict3("username", StrV(<<"u1">>), "product_id", IntV(7), "date", NaN),
                   Dict3("username", StrV(<<"u3">>), "product_id", NaN, "date", StrV(TDate2003)) },
     malformed |-> { Unbalanced(Dict3("username", StrV(<<"u1">>), "product_id", IntV(7),
                     "date", StrV(TDate2003))),
                     <<IntV(7)>>,
                     Dict3("username", StrV(<<"u1">>), "product_id", IntV(7),
                     "date", StrV(TGowalla2010)) },
     garbled |-> { Dict3("username", StrV(<<"u", InvalidByte>>), "product_id", IntV(7),
                   "date", StrV(TDate2003)) },
     untidy |-> {}]
SteamBlank == { <<Ws>> }
SteamGameLines ==
    [good |-> { Dict2("id", IntV(7), "title", StrV(<<"Portal">>)) },
     missing |-> { Dict2("id", StrV(<<"8">>), "title", StrV(TNan)),
                   Dict2("id", IntV(9), "title", NaN),
                   Dict2("id", IntV(6), "name", StrV(<<"Portal">>)) },
     malformed |-> { Unbalanced(Dict2("id", IntV(7), "title", StrV(<<"Portal">>))) },
     garbled |-> {},
     untidy |-> { Dict2("id", IntV(5), "title", StrV(<<>>)) }]

YelpReviewLines ==
    [good |-> { Dict3("user_id", StrV(<<"u1">>), "business_id", StrV(<<"b1">>),
                "date", StrV(TDate2003)),
                Dict3("user_id", StrV(<<"u2">>), "business_id", StrV(<<"b2">>),
                "date", StrV(TDate1970)) },
     missing |-> { Dict3("user_id", StrV(<<"u1">>), "business_id", StrV(<<"b1">>), "date", NaN) },
     malformed |-> { Unbalanced(Dict3("user_id", StrV(<<"u1">>), "business_id", StrV(<<"b1">>),
                     "date", StrV(TDate2003))),
                     Dict3("user_id", StrV(<<"u1">>), "business_id", StrV(<<"b1">>),
                     "date", StrV(<<"x">>)) },
     garbled |-> { Dict3("user_id", StrV(<<"u", InvalidByte>>), "business_id", StrV(<<"b1">>),
                   "date", StrV(TDate2003)) },
     untidy |-> {}]
YelpBusinessLines ==
    [good |-> { Dict2("business_id", StrV(<<"b1">>), "name", StrV(<<"Cafe">>)) },
     missing |-> { Dict2("business_id", StrV(<<"b2">>), "name", StrV(TNan)),
                   Dict2("business_id", StrV(<<"b3">>), "name", NaN),
                   Dict2("business_id", StrV(<<"b4">>), "title", StrV(<<"Cafe">>)) },
     malformed |-> {},
     garbled |-> {},
     untidy |-> { Dict2("business_id", StrV(<<"b5">>), "name", StrV(<<" ", "Cafe">>)) }]

(* --------------------------- the state ---------------------------------- *)
VARIABLES
    self,          \* the processor: its class, dataset name and configuration
    raw,           \* the files of dataset_dir/raw: inter, inter2, meta
    pc,            \* "ready", then "returned" or "raised"
    interactions,  \* the first element of the returned pair
    item2title,    \* the second element of the returned pair
    error,         \* the exception the constructor or _load_data raised
    diag,          \* the lines read_json printed during the last call
    reads,         \* the reader calls of the last call, in order
    calls,         \* how many calls of _load_data have ended
    first          \* how the first call of _load_data ended
vars == <<self, raw, pc, interactions, item2title, error, diag, reads, calls, first>>

\* BaseDatasetProcessor.__init__ as the processors call it
Processor(proc, dataset_name, meta_available) ==
    [proc |-> proc, dataset_name |-> dataset_name, meta_available |-> meta_available,
     attrs |-> {}, delimiter |-> "", file_suffix |-> "", header |-> NoHeader, ok |-> TRUE]

Processors ==
    {Processor("Douban", "douban-book", FALSE), Processor("Gowalla", "gowalla", FALSE),
     Processor("KuaiRec", "kuairec", FALSE), Processor("RetailRocket", "retailrocket", FALSE),
     Processor("YooChoose", "yoochoose-clicks", FALSE)}
    \cup {Processor(p[1], p[2], m) :
            p \in {<<"Food", "food">>, <<"Steam", "steam">>, <<"Yelp", "yelp2018">>},
            m \in BOOLEAN}
    \cup {MovielensInit(d, m) : d \in MovielensNames \cup {"movielens-100k"}, m \in BOOLEAN}

\* the reader calls of _load_data in the order of the code: the file under
\* raw_dir, the delimiter and the header argument (read_json takes neither)
ReadCall(path, sep, header) == [path |-> path, sep |-> sep, header |-> header]
ReadCalls(me) ==
    IF me.proc = "Douban" THEN <<ReadCall(<<me.dataset_name, ".tsv">>, "\t", 0)>>
    ELSE IF me.proc = "Gowalla"
    THEN <<ReadCall(<<"loc-gowalla_totalCheckins.txt.gz">>, "\t", NoHeader)>>
    ELSE IF me.proc = "Food"
    THEN <<ReadCall(<<"RAW_interactions.csv">>, ",", 0),
           ReadCall(<<"RAW_recipes.csv">>, ",", 0)>>
    ELSE IF me.proc = "KuaiRec"
    THEN <<ReadCall(<<"big_matrix.csv">>, ",", 0), ReadCall(<<"small_matrix.csv">>, ",", 0)>>
    ELSE IF me.proc = "Movielens"
    THEN <<ReadCall(<<"ratings", me.file_suffix>>, me.delimiter, me.header),
           ReadCall(<<"movies", me.file_suffix>>, me.delimiter, me.header)>>
    ELSE IF me.proc = "RetailRocket" THEN <<ReadCall(<<"events.csv">>, ",", 0)>>
    ELSE IF me.proc = "Steam"
    THEN <<ReadCall(<<"steam_reviews.json">>, "", NoHeader),
           ReadCall(<<"steam_games.json">>, "", NoHeader)>>
    ELSE IF me.proc = "Yelp"
    THEN <<ReadCall(<<"yelp_academic_dataset_review.json">>, "", NoHeader),
           ReadCall(<<"yelp_academic_dataset_business.json">>, "", NoHeader)>>
    ELSE <<ReadCall(<<me.dataset_name, ".dat">>, ",", NoHeader)>>

Raw(inter, inter2, meta) == [inter |-> inter, inter2 |-> inter2, meta |-> meta]
\* the raw directories with two files: one of the two holds at most one line,
\* a well-formed one (F0 and G0), the other is any file of F or G
TwoFiles(F, F0, G, G0) == (F \X G0) \cup (F0 \X G)
\* the raw directories a processor may find
RawFor(me) ==
    IF me.proc = "Douban"
    THEN {Raw(f, NoFile, NoFile) : f \in FilesWith(DoubanHeader, AnyOf(DoubanLines), MaxRows)}
    ELSE IF me.proc = "Gowalla"
    THEN {Raw(f, NoFile, NoFile) : f \in FilesOf(AnyOf(GowallaLines), MaxRows)}
    ELSE IF me.proc = "KuaiRec"
    THEN {Raw(p[1], p[2], NoFile) :
            p \in TwoFiles(FilesWith(KuaiRecHeader, AnyOf(KuaiRecLines), MaxRows),
                           FilesWith(KuaiRecHeader, KuaiRecLines.good, 1),
                           FilesWith(KuaiRecHeader, AnyOf(KuaiRecLines), MaxRows)
                             \cup FilesWith([KuaiRecHeader EXCEPT ![5] = <<"play_duration">>],
                                            KuaiRecLines.good, 1),
                           FilesWith(KuaiRecHeader, KuaiRecLines.good, 1))}
    ELSE IF me.proc = "RetailRocket"
    THEN {Raw(f, NoFile, NoFile) :
            f \in FilesWith(EventsHeader, AnyOf(EventsLines), MaxRows)
                    \cup FilesWith([EventsHeader EXCEPT ![3] = <<"action">>],
                                   EventsLines.good, 1)
                    \cup FilesWith([EventsHeader EXCEPT ![1] = <<"visitorid">>,
                                                        ![2] = <<"timestamp">>],
                                   EventsLines.good, 1)}
    ELSE IF me.proc = "YooChoose"
    THEN {Raw(f, NoFile, NoFile) : f \in FilesOf(AnyOf(YooChooseLines), MaxRows)}
    ELSE IF ~me.meta_available
    THEN {Raw(f, NoFile, NoFile) :
            f \in IF me.proc = "Food"
                  THEN FilesWith(FoodHeader, AnyOf(FoodLines), MaxRows)
                  ELSE IF me.proc = "Steam"
                  THEN FilesOf(AnyOf(SteamReviewLines) \cup SteamBlank, MaxRows)
                  ELSE IF me.proc = "Yelp"
                  THEN FilesOf(AnyOf(YelpReviewLines), MaxRows)
                  ELSE IF me.header = 0
                  THEN FilesWith(RatingsHeader, AnyOf(RatingsLines), MaxRows)
                  ELSE FilesOf(AnyOf(RatingsLines), MaxRows)}
    ELSE {Raw(p[1], NoFile, p[2]) :
            p \in IF me.proc = "Food"
                  THEN TwoFiles(FilesWith(FoodHeader, AnyOf(FoodLines), MaxRows),
                                FilesWith(FoodHeader, FoodLines.good, 1),
                                FilesWith(FoodMetaHeader, AnyOf(FoodMetaLines), MaxMetaRows),
                                FilesWith(FoodMetaHeader, FoodMetaLines.good, 1))
                  ELSE IF me.proc = "Steam"
                  THEN TwoFiles(FilesOf(AnyOf(SteamReviewLines) \cup SteamBlank, MaxRows),
                                FilesOf(SteamReviewLines.good, 1),
                                FilesOf(AnyOf(SteamGameLines), MaxMetaRows),
                                FilesOf(SteamGameLines.good, 1))
                  ELSE IF me.proc = "Yelp"
                  THEN TwoFiles(FilesOf(AnyOf(YelpReviewLines), MaxRows),
                                FilesOf(YelpReviewLines.good, 1),
                                FilesOf(AnyOf(YelpBusinessLines), MaxMetaRows),
                                FilesOf(YelpBusinessLines.good, 1))
                  ELSE IF me.header = 0
                  THEN TwoFiles(FilesWith(RatingsHeader, AnyOf(RatingsLines), MaxRows),
                                FilesWith(RatingsHeader, RatingsLines.good, 1),
                                FilesWith(MoviesHeader, AnyOf(MoviesLines),
                                          IF me.dataset_name = "movielens-20m"
                                          THEN MaxMovieRows ELSE 1),
                                FilesWith(MoviesHeader, MoviesLines.good, 1))
                  ELSE TwoFiles(FilesOf(AnyOf(RatingsLines), MaxRows),
                                FilesOf(RatingsLines.good, 1),
                                FilesOf(AnyOf(MoviesLines),
                                        IF me.dataset_name = "movielens-1m"
                                        THEN MaxMovieRows ELSE 1),
                                FilesOf(MoviesLines.good, 1))}

\* no call of _load_data has been made
NotRun ==
    [outcome |-> "ready", error |-> "", interactions |-> EmptyDF, item2title |-> PyNone,
     diag |-> <<>>, nreads |-> 0]
\* the state after the constructor: a processor, or the ValueError it raised
Init ==
    /\ self \in Processors
    /\ raw \in RawFor(self)
    /\ pc = IF self.ok THEN "ready" ELSE "rejected"
    /\ interactions = EmptyDF
    /\ item2title = PyNone
    /\ error = IF self.ok THEN "" ELSE "ValueError"
    /\ diag = <<>>
    /\ reads = <<>>
    /\ calls = 0
    /\ first = NotRun

\* a variant of the definition below in which a call clears meta_available
AfterLoadForgetsMeta(me) == [me EXCEPT !.meta_available = FALSE]
\* _load_data assigns no attribute of the processor
AfterLoad(me) == me
\* _load_data can be called on a constructed processor, again after it ended
Callable == pc \in {"ready", "returned", "raised"} /\ calls < MaxCalls

\* the call of _load_data ends as out says
Finish(out) ==
    /\ pc' = out.outcome
    /\ interactions' = out.interactions
    /\ item2title' = out.item2title
    /\ error' = out.error
    /\ diag' = out.diag
    /\ reads' = SubSeq(ReadCalls(self), 1, out.nreads)
    /\ calls' = calls + 1
    /\ first' = IF calls = 0 THEN out ELSE first
    /\ self' = AfterLoad(self)
    /\ UNCHANGED raw

Douban_load_data ==
    self.proc = "Douban" /\ Callable /\ Finish(DoubanLoadData(self, raw))
Food_load_data ==
    self.proc = "Food" /\ Callable /\ Finish(FoodLoadData(self, raw))
Gowalla_load_data ==
    self.proc = "Gowalla" /\ Callable /\ Finish(GowallaLoadData(self, raw))
KuaiRec_load_data ==
    self.proc = "KuaiRec" /\ Callable /\ Finish(KuaiRecLoadData(self, raw))
Movielens_load_data ==
    self.proc = "Movielens" /\ Callable /\ Finish(MovielensLoadData(self, raw))
RetailRocket_load_data ==
    self.proc = "RetailRocket" /\ Callable /\ Finish(RetailRocketLoadData(self, raw))
Steam_load_data ==
    self.proc = "Steam" /\ Callable /\ Finish(SteamLoadData(self, raw))
Yelp_load_data ==
    self.proc = "Yelp" /\ Callable /\ Finish(YelpLoadData(self, raw))
YooChoose_load_data ==
    self.proc = "YooChoose" /\ Callable /\ Finish(YooChooseLoadData(self, raw))

Next ==
    \/ Douban_load_data
    \/ Food_load_data
    \/ Gowalla_load_data
    \/ KuaiRec_load_data
    \/ Movielens_load_data
    \/ RetailRocket_load_data
    \/ Steam_load_data
    \/ Yelp_load_data
    \/ YooChoose_load_data

Spec == Init /\ [][Next]_vars

(* ------------------------- vocabulary of the claims --------------------- *)
CsvProcessors ==
    {"Douban", "Gowalla", "Movielens", "Food", "KuaiRec", "RetailRocket", "YooChoose"}
MetaProcessors == {"Food", "Movielens", "Steam", "Yelp"}
\* the header= argument a processor reads its files with
HeaderOf(me) ==
    IF me.proc \in {"Douban", "Food", "KuaiRec", "RetailRocket"} THEN 0
    ELSE IF me.proc = "Movielens" THEN me.header
    ELSE NoHeader
\* the data lines of a raw file of the processor
Records(me, file) == DataLines(file, HeaderOf(me))

\* the columns a reader call selects by name
SelectedNames(me, which) ==
    IF me.proc = "Steam"
    THEN (IF which = "meta" THEN {"id", "title"} ELSE {"username", "product_id", "date"})
    ELSE IF me.proc = "Yelp"
    THEN (IF which = "meta" THEN {"business_id", "name"}
          ELSE {"user_id", "business_id", "date"})
    ELSE IF me.proc = "KuaiRec" THEN {"user_id", "video_id", "timestamp", "watch_ratio"}
    ELSE IF me.proc = "RetailRocket" THEN {"timestamp", "visitorid", "event", "itemid"}
    ELSE {}
\* the fields of the records of a JSON file, the column names of a CSV header
NamesIn(me, file) ==
    IF me.proc \in {"Steam", "Yelp"}
    THEN UNION {{LiteralEval(Strip(file.lines[i])).items[k][1] :
                   k \in 1..Len(LiteralEval(Strip(file.lines[i])).items)} :
                i \in {j \in 1..Len(file.lines) : LiteralEval(Strip(file.lines[j])).ok}}
    ELSE IF Len(file.lines) = 0 THEN {}
    ELSE {file.lines[1][p][1] : p \in 1..Len(file.lines[1])}
\* the file is missing, or lacks a selected column
Fatal(me, file, which) ==
    ~file.exists \/ \E c \in SelectedNames(me, which) : c \notin NamesIn(me, file)
MetaRead(me) == me.proc \in MetaProcessors /\ me.meta_available

GoodInter(me) ==
    IF me.proc = "Douban" THEN DoubanLines.good
    ELSE IF me.proc = "Gowalla" THEN GowallaLines.good
    ELSE IF me.proc = "Food" THEN FoodLines.good
    ELSE IF me.proc = "KuaiRec" THEN KuaiRecLines.good
    ELSE IF me.proc = "Movielens" THEN RatingsLines.good
    ELSE IF me.proc = "RetailRocket" THEN EventsLines.good
    ELSE IF me.proc = "Steam" THEN SteamReviewLines.good \cup SteamBlank
    ELSE IF me.proc = "Yelp" THEN YelpReviewLines.good
    ELSE YooChooseLines.good
MissingInter(me) ==
    IF me.proc = "Douban" THEN DoubanLines.missing
    ELSE IF me.proc = "Gowalla" THEN GowallaLines.missing
    ELSE IF me.proc = "Food" THEN FoodLines.missing
    ELSE IF me.proc = "KuaiRec" THEN KuaiRecLines.missing
    ELSE IF me.proc = "Movielens" THEN RatingsLines.missing
    ELSE IF me.proc = "RetailRocket" THEN EventsLines.missing
    ELSE IF me.proc = "Steam" THEN SteamReviewLines.missing
    ELSE IF me.proc = "Yelp" THEN YelpReviewLines.missing
    ELSE YooChooseLines.missing
GoodMeta(me) ==
    IF me.proc = "Food" THEN FoodMetaLines.good
    ELSE IF me.proc = "Movielens" THEN MoviesLines.good
    ELSE IF me.proc = "Steam" THEN SteamGameLines.good
    ELSE YelpBusinessLines.good
MissingMeta(me) ==
    IF me.proc = "Food" THEN FoodMetaLines.missing
    ELSE IF me.proc = "Movielens" THEN MoviesLines.missing
    ELSE IF me.proc = "Steam" THEN SteamGameLines.missing
    ELSE YelpBusinessLines.missing

\* the file is there, has a record, and all its data lines are in S
AllIn(me, file, S) ==
    /\ file.exists
    /\ \E i \in 1..Len(Records(me, file)) : Records(me, file)[i] \notin SteamBlank
    /\ \A i \in 1..Len(Records(me, file)) : Records(me, file)[i] \in S
\* the files the call reads, with every data line in the given sets
RawIn(me, files, inter, meta) ==
    /\ AllIn(me, files.inter, inter)
    /\ me.proc = "KuaiRec" => AllIn(me, files.inter2, inter)
    /\ (me.proc \in MetaProcessors /\ me.meta_available) => AllIn(me, files.meta, meta)
WellFormedRaw == RawIn(self, raw, GoodInter(self), GoodMeta(self))

\* a call of _load_data has ended
Ended == pc \in {"returned", "raised"}
RowsOf(df) == {df.rows[i] : i \in 1..Len(df.rows)}
IsValue(c) == c.t \in {"int", "float", "str"}
TitleOf(r) == r.cells[2]

(* ------------------------------ claims ---------------------------------- *)
\* C1: whenever _load_data returns, for every processor, the interaction
\* table has exactly the columns UserID, ItemID, Timestamp and every row has
\* a non-null value in each of them.
C1_SchemaClosure ==
    pc = "returned" =>
      /\ Len(interactions.columns) = 3
      /\ {interactions.columns[j] : j \in 1..3} = {"UserID", "ItemID", "Timestamp"}
      /\ \A r \in RowsOf(interactions) :
           Len(r.cells) = 3 /\ \A j \in 1..3 : IsValue(r.cells[j])
\* a Douban run that returned one row and dropped the other data line
C1_Witness ==
    /\ pc = "returned"
    /\ self.proc = "Douban"
    /\ Len(raw.inter.lines) = 3
    /\ Len(interactions.rows) = 1

\* C2: a call whose raw files are present and well-formed returns a pair
\* whose second element is an (ItemID, Title) table or None, and None for
\* every processor when meta_available is false.
C2_OutputContract ==
    (Ended /\ WellFormedRaw) =>
      /\ pc = "returned"
      /\ item2title.isNone \/ item2title.df.columns = <<"ItemID", "Title">>
      /\ ~self.meta_available => item2title.isNone

\* C3: in both read_csv variants a raw row with a missing value in a retained
\* column is dropped: the read completes, no returned row stems from such
\* a line, and no filler value stands in for the missing one.
C3_MissingRowsDropped ==
    (/\ Ended
     /\ self.proc \in CsvProcessors
     /\ RawIn(self, raw, GoodInter(self) \cup MissingInter(self),
              GoodMeta(self) \cup MissingMeta(self))) =>
      /\ pc = "returned"
      /\ \A r \in RowsOf(interactions) :
           \/ Records(self, raw.inter)[r.idx + 1] \in GoodInter(self)
           \/ /\ self.proc = "KuaiRec"
              /\ r.idx < Len(Records(self, raw.inter2))
              /\ Records(self, raw.inter2)[r.idx + 1] \in GoodInter(self)
      /\ \A r \in RowsOf(item2title.df) :
           Records(self, raw.meta)[r.idx + 1] \in GoodMeta(self)

C5_Given ==
    LET movies == Records(self, raw.meta) IN
      /\ self.proc = "Movielens"
      /\ self.meta_available
      /\ raw.meta.exists
      /\ Len(movies) = 3
      /\ movies[1][2] = TToyStory
      /\ movies[2][2] = TNan
      /\ movies[3][2] = <<>>
C5_ToyStory ==
    (pc = "returned" /\ C5_Given) =>
      /\ Len(item2title.df.rows) = 1
      /\ item2title.df.columns = <<"ItemID", "Title">>
      /\ item2title.df.rows[1].cells =
           <<IntV(ParseInt(Records(self, raw.meta)[1][1])), StrV(<<"Toy", " ", "Story">>)>>
C5_Witness == pc = "returned" /\ C5_Given /\ self.dataset_name = "movielens-20m"

(* the pseudo-JSON reader *)
\* a non-blank line that ast.literal_eval rejects
ParseFails(line) == Len(Strip(line)) > 0 /\ ~LiteralEval(Strip(line)).ok
Parses(line) == LiteralEval(Strip(line)).ok
NotParseFails(line) == ~ParseFails(line)
WithoutBad(file) == [file EXCEPT !.lines = SelectSeq(@, NotParseFails)]
\* the stripped lines of the file that fail to parse, in file order
Reported(file) ==
    LET bad == SelectSeq(file.lines, ParseFails)
    IN [i \in 1..Len(bad) |-> Strip(bad[i])]
PrintedLines == [i \in 1..Len(diag) |-> diag[i].line]

\* C6: the Steam reader never aborts because a line fails to parse: every
\* non-blank line that does not parse is reported (its content) and skipped,
\* the lines after it are still processed, and the call ends exactly as it
\* does on the file without those lines; one well-formed line and one
\* unbalanced line give a one-row table.  The lines of a file are the lines
\* of its text: a file that cannot be decoded is never split into lines.
C6_MalformedLineTolerance ==
    (Ended /\ self.proc = "Steam" /\ raw.inter.exists) =>
      LET clean == SteamLoadData(self, [raw EXCEPT !.inter = WithoutBad(@),
                                                   !.meta = WithoutBad(@)])
          n == Len(Reported(raw.inter))
      IN /\ pc = clean.outcome
         /\ error = clean.error
         /\ interactions = clean.interactions
         /\ item2title = clean.item2title
         /\ ~StrictDecodeFails(raw.inter) =>
              /\ Len(diag) >= n
              /\ SubSeq(PrintedLines, 1, n) = Reported(raw.inter)
              /\ SubSeq(PrintedLines, n + 1, Len(diag)) \in {<<>>, Reported(raw.meta)}
         /\ (pc = "returned" /\ self.meta_available) =>
              SubSeq(PrintedLines, n + 1, Len(diag)) = Reported(raw.meta)
         /\ (/\ ~self.meta_available
             /\ Len(raw.inter.lines) = 2
             /\ \E i, j \in 1..2 : /\ raw.inter.lines[i] \in SteamReviewLines.good
                                   /\ ParseFails(raw.inter.lines[j])) =>
              pc = "returned" /\ Len(interactions.rows) = 1
\* an unbalanced line first, a well-formed line after it: one row, one report
C6_Witness ==
    /\ pc = "returned"
    /\ self.proc = "Steam"
    /\ Len(raw.inter.lines) = 2
    /\ ParseFails(raw.inter.lines[1])
    /\ raw.inter.lines[2] \in SteamReviewLines.good
    /\ Len(interactions.rows) = 1
    /\ Len(diag) = 1

\* C7: no reader returns more rows than its raw file has records, KuaiRec
\* no more than big_matrix and small_matrix together, and a line that did
\* not parse contributes no row.
C7_RowDropMonotonic ==
    pc = "returned" =>
      /\ Len(interactions.rows) <=
           Len(Records(self, raw.inter))
             + (IF self.proc = "KuaiRec" THEN Len(Records(self, raw.inter2)) ELSE 0)
      /\ ~item2title.isNone => Len(item2title.df.rows) <= Len(Records(self, raw.meta))
      /\ self.proc = "Steam" =>
           /\ Len(interactions.rows) <= Len(SelectSeq(raw.inter.lines, Parses))
           /\ Len(item2title.df.rows) <= Len(SelectSeq(raw.meta.lines, Parses))
\* KuaiRec: three records in the two files, two rows returned
C7_Witness ==
    /\ pc = "returned"
    /\ self.proc = "KuaiRec"
    /\ Len(Records(self, raw.inter)) + Len(Records(self, raw.inter2)) = 3
    /\ Len(interactions.rows) = 2

\* the lines whose only defect is a value that its column's type rejects
CoercionFails(me) ==
    IF me.proc = "Douban" THEN DoubanLines.malformed
    ELSE IF me.proc = "YooChoose" THEN YooChooseLines.malformed
    ELSE {}
\* C8: a value that cannot be coerced to its column's declared type removes
\* only its row: the read completes and the other rows are returned.
C8_CoercionFailureDropsRow ==
    (/\ Ended
     /\ self.proc \in CsvProcessors
     /\ RawIn(self, raw, GoodInter(self) \cup CoercionFails(self), GoodMeta(self))) =>
      /\ pc = "returned"
      /\ \A r \in RowsOf(interactions) :
           self.proc # "KuaiRec" => Records(self, raw.inter)[r.idx + 1] \in GoodInter(self)
      /\ self.proc \notin {"KuaiRec", "RetailRocket"} =>
           Len(interactions.rows) =
             Cardinality({i \in 1..Len(Records(self, raw.inter)) :
                            Records(self, raw.inter)[i] \in GoodInter(self)})

TimestampOf(r) == r.cells[3]
TimeColumn(me) ==
    IF me.proc \in {"Douban", "Movielens"} THEN 4
    ELSE IF me.proc = "Food" THEN 3
    ELSE IF me.proc = "RetailRocket" THEN 1
    ELSE 2
RawTime(me, files, r) ==
    IF me.proc \in {"Steam", "Yelp"}
    THEN Lookup(LiteralEval(Strip(SelectSeq(files.inter.lines, Parses)[r.idx + 1])).items,
                "date")
    ELSE StrV(Records(me, files.inter)[r.idx + 1][TimeColumn(me)])
HasRawTime(me, files, r) ==
    LET x == RawTime(me, files, r) IN x.t = "str" /\ ~IsNAText(x.s)
\* the event time in whole seconds since the epoch
EpochSeconds(me, x) ==
    IF me.proc = "Douban" THEN ParseFloat(x.s).n
    ELSE IF me.proc = "Movielens" THEN ParseInt(x.s)
    ELSE IF me.proc = "RetailRocket" THEN ParseInt(x.s) \div 1000
    ELSE IF me.proc = "Gowalla" THEN ToDatetime(x, FmtGowalla).n
    ELSE IF me.proc = "YooChoose" THEN ToDatetime(x, FmtYooChoose).n
    ELSE ToDatetime(x, FmtDate).n
\* the event time in milliseconds since the epoch
EpochMillis(me, x) ==
    IF me.proc = "RetailRocket" THEN ParseInt(x.s)
    ELSE ToDatetime(x, FmtYooChoose).n * 1000 + ToDatetime(x, FmtYooChoose).f \div 1000

\* C10, as stated: KuaiRec alone is exempt; for every other processor the
\* Timestamp is the number of seconds since the epoch of the raw event time.
C10_SecondsButKuaiRec ==
    (pc = "returned" /\ self.proc # "KuaiRec") =>
      \A r \in RowsOf(interactions) :
        HasRawTime(self, raw, r) =>
          TimestampOf(r) = IntV(EpochSeconds(self, RawTime(self, raw, r)))
\* C10, amended: KuaiRec, RetailRocket and YooChoose are exempt.  For Douban,
\* Food, Gowalla, MovieLens, Steam and Yelp the Timestamp of a row with a raw
\* event time is its number of seconds since the epoch; RetailRocket returns
\* the raw millisecond value unchanged and YooChoose milliseconds since the
\* epoch.
C10_SecondsOrMillis ==
    (pc = "returned" /\ self.proc # "KuaiRec") =>
      \A r \in RowsOf(interactions) :
        HasRawTime(self, raw, r) =>
          IF self.proc \in {"RetailRocket", "YooChoose"}
          THEN TimestampOf(r) = IntV(EpochMillis(self, RawTime(self, raw, r)))
          ELSE TimestampOf(r) = IntV(EpochSeconds(self, RawTime(self, raw, r)))
\* a YooChoose row in milliseconds
C10_Witness ==
    /\ pc = "returned"
    /\ self.proc = "YooChoose"
    /\ \E r \in RowsOf(interactions) : TimestampOf(r) = IntV(86401117)

CellsOf(df) == [i \in 1..Len(df.rows) |-> df.rows[i].cells]

\* C11: the Timestamp is the exact epoch value of the raw UTC time: Gowalla
\* maps "2010-10-19T23:55:27Z" to 1287532527 and Food maps "2003-02-17" to
\* 1045440000 (midnight UTC); a date-time becomes its nanosecond epoch value
\* floor-divided by 10^9 (whole seconds), for YooChoose by 10^6 (milliseconds).
C11_ExactEpochValues ==
    pc = "returned" =>
      \A r \in RowsOf(interactions) :
        LET x == RawTime(self, raw, r).s IN
          /\ (self.proc = "Gowalla" /\ x = TGowalla2010) => TimestampOf(r) = IntV(1287532527)
          /\ (self.proc = "Gowalla" /\ x = TGowalla1970) => TimestampOf(r) = IntV(86401)
          /\ (self.proc \in {"Food", "Steam", "Yelp"} /\ x = TDate2003) =>
               TimestampOf(r) = IntV(1045440000)
          /\ (self.proc \in {"Food", "Steam", "Yelp"} /\ x = TDate1970) =>
               TimestampOf(r) = IntV(86400)
          /\ (self.proc = "YooChoose" /\ x = TYoo1) => TimestampOf(r) = IntV(86401117)
          /\ (self.proc = "YooChoose" /\ x = TYoo2) => TimestampOf(r) = IntV(210030500)
\* Gowalla returns the row of the check-in of 2010-10-19T23:55:27Z
C11_Witness ==
    /\ pc = "returned"
    /\ self.proc = "Gowalla"
    /\ \E r \in RowsOf(interactions) :
         RawTime(self, raw, r).s = TGowalla2010 /\ TimestampOf(r) = IntV(1287532527)

\* the records of big_matrix, then those of small_matrix
KuaiRecRecords(files) == Records(self, files.inter) \o Records(self, files.inter2)
RatioAtLeastTwo(x) ==
    /\ \A j \in {1, 2, 4, 5} : ~IsNAText(x[j])
    /\ ParseFloat(x[5]).n * 1000 + ParseFloat(x[5]).f >= 2000
\* C12: KuaiRec returns exactly the rows of big_matrix followed by those of
\* small_matrix whose watch ratio is >= 2.0 (2.0 itself kept, nothing
\* de-duplicated), with UserID, ItemID and Timestamp unchanged and without
\* the WatchRatio column; ratios 1.0, 2.0 and 3.5 give the two rows of 2.0
\* and 3.5.
C12_KuaiRecUnionThreshold ==
    (pc = "returned" /\ self.proc = "KuaiRec") =>
      LET kept == SelectSeq(KuaiRecRecords(raw), RatioAtLeastTwo) IN
        /\ interactions.columns = <<"UserID", "ItemID", "Timestamp">>
        /\ CellsOf(interactions) =
             [i \in 1..Len(kept) |->
                <<IntV(ParseInt(kept[i][1])), IntV(ParseInt(kept[i][2])),
                  ParseFloat(kept[i][4])>>]
        /\ (/\ Len(KuaiRecRecords(raw)) = 3
            /\ {KuaiRecRecords(raw)[i] : i \in 1..3} = KuaiRecLines.good) =>
             /\ Len(interactions.rows) = 2
             /\ {TimestampOf(r) : r \in RowsOf(interactions)} = {FloatV(200, 250), FloatV(300, 0)}
\* ratios 1.0 and 2.0 in big_matrix, 3.5 in small_matrix: two rows
C12_Witness ==
    /\ pc = "returned"
    /\ self.proc = "KuaiRec"
    /\ Len(Records(self, raw.inter)) = 2
    /\ Len(Records(self, raw.inter2)) = 1
    /\ {KuaiRecRecords(raw)[i] : i \in 1..3} = KuaiRecLines.good
    /\ Len(interactions.rows) = 2

IsViewRecord(x) == x[3] = TView
\* C13: RetailRocket returns exactly the raw rows whose event is "view";
\* when no raw row has event "view" the call does not raise and returns a
\* table with no rows and the columns UserID, ItemID, Timestamp.
C13_ViewFilter ==
    self.proc = "RetailRocket" =>
      LET recs == Records(self, raw.inter)
          views == SelectSeq(recs, IsViewRecord)
      IN /\ pc = "returned" =>
              /\ interactions.columns = <<"UserID", "ItemID", "Timestamp">>
              /\ CellsOf(interactions) =
                   [i \in 1..Len(views) |->
                      <<IntV(ParseInt(views[i][2])), IntV(ParseInt(views[i][4])),
                        IntV(ParseInt(views[i][1]))>>]
         /\ (/\ Ended
             /\ ~Fatal(self, raw.inter, "inter")
             /\ views = <<>>
             /\ \A i \in 1..Len(recs) : \A j \in {1, 2, 4} : ~IsNAText(recs[i][j])) =>
              /\ pc = "returned"
              /\ interactions.rows = <<>>
              /\ interactions.columns = <<"UserID", "ItemID", "Timestamp">>
\* two events, none of them a view: an empty table is returned
C13_Witness ==
    /\ pc = "returned"
    /\ self.proc = "RetailRocket"
    /\ Len(Records(self, raw.inter)) = 2
    /\ \A i \in 1..2 : ~IsViewRecord(Records(self, raw.inter)[i])
    /\ interactions.rows = <<>>

\* C14: the MovieLens format is selected at construction from the dataset
\* name ("::", ".dat", no header for 1m and 10m; ",", ".csv", header row 0 for
\* 20m, 25m and 32m) and every later _load_data reads ratings<suffix> and
\* movies<suffix> with exactly that delimiter and header setting.
C14_FormatSelection ==
    (self.proc = "Movielens" /\ self.dataset_name \in MovielensNames) =>
      LET dat == self.dataset_name \in {"movielens-1m", "movielens-10m"}
          suffix == IF dat THEN ".dat" ELSE ".csv"
          sep == IF dat THEN "::" ELSE ","
          header == IF dat THEN NoHeader ELSE 0
      IN /\ self.ok
         /\ self.delimiter = sep /\ self.file_suffix = suffix /\ self.header = header
         /\ Ended =>
              /\ Len(reads) \in 1..2
              /\ reads[1] = [path |-> <<"ratings", suffix>>, sep |-> sep, header |-> header]
              /\ Len(reads) = 2 =>
                   reads[2] = [path |-> <<"movies", suffix>>, sep |-> sep, header |-> header]
              /\ (pc = "returned" /\ self.meta_available) => Len(reads) = 2
              /\ (pc = "returned" /\ ~self.meta_available) => Len(reads) = 1
\* the second call of a movielens-1m processor with metadata has read
\* ratings.dat and movies.dat
C14_Witness ==
    /\ self.dataset_name = "movielens-1m"
    /\ pc = "returned"
    /\ calls = 2
    /\ Len(reads) = 2
    /\ reads[2].path = <<"movies", ".dat">>
    /\ Len(interactions.rows) > 0

\* C15: constructing a MovieLens processor with a name that is none of the five
\* variants raises ValueError at construction: no processor is returned, the
\* format attributes are never set, no raw file is read and no call of
\* _load_data ever happens.
C15_UnknownNameRejected ==
    (self.proc = "Movielens" /\ self.dataset_name \notin MovielensNames) =>
      /\ pc = "rejected"
      /\ error = "ValueError"
      /\ ~self.ok
      /\ self.attrs = {}
      /\ reads = <<>>
      /\ calls = 0
      /\ interactions = EmptyDF /\ item2title = PyNone
\* a processor for the directory movielens-100k is asked for
C15_Witness ==
    /\ self.proc = "Movielens"
    /\ self.dataset_name = "movielens-100k"
    /\ pc = "rejected"
    /\ raw.inter.exists

\* C16: a missing raw file or a selected column absent from a source aborts
\* the whole load: the call raises and returns neither table, also when the
\* interaction file was loaded and the failure is on the metadata file.
C16_FatalErrorsAbort ==
    Ended =>
      /\ (\/ Fatal(self, raw.inter, "inter")
          \/ self.proc = "KuaiRec" /\ Fatal(self, raw.inter2, "inter")
          \/ MetaRead(self) /\ Fatal(self, raw.meta, "meta")) =>
           /\ pc = "raised"
           /\ interactions = EmptyDF
           /\ item2title = PyNone
      /\ (MetaRead(self) /\ Len(reads) = 2 /\ ~raw.meta.exists) =>
           pc = "raised" /\ error = "FileNotFoundError"
\* Food with metadata: RAW_interactions.csv is read, RAW_recipes.csv is missing
C16_Witness ==
    /\ self.proc = "Food"
    /\ self.meta_available
    /\ raw.inter.exists
    /\ Len(reads) = 2
    /\ ~raw.meta.exists
    /\ pc = "raised"

\* how the last call ended
LastOutcome ==
    [outcome |-> pc, error |-> error, interactions |-> interactions,
     item2title |-> item2title, diag |-> diag, nreads |-> Len(reads)]
C18_NoEncodingFailure ==
    Ended => error # "UnicodeDecodeError"

\* every file the call needs exists
FilesExist(me, files) ==
    /\ files.inter.exists
    /\ me.proc = "KuaiRec" => files.inter2.exists
    /\ MetaRead(me) => files.meta.exists
\* a file the call reads lacks a selected column
ColumnAbsent(me, files) ==
    \/ Fatal(me, files.inter, "inter")
    \/ me.proc = "KuaiRec" /\ Fatal(me, files.inter2, "inter")
    \/ MetaRead(me) /\ Fatal(me, files.meta, "meta")
\* C19: a reader raises exactly when a selected column is absent from its
\* source; every other data-quality problem only drops rows.
C19_RaisesOnlyOnAbsentColumn ==
    (Ended /\ FilesExist(self, raw)) =>
      (pc = "raised" <=> ColumnAbsent(self, raw))

\* no leading or trailing whitespace and no run of two whitespace characters
Normalized(x) ==
    /\ Len(x) > 0 => ~IsSpace(x[1]) /\ ~IsSpace(x[Len(x)])
    /\ \A k \in 1..(Len(x) - 1) : ~(IsSpace(x[k]) /\ IsSpace(x[k + 1]))
\* C20: every row of a returned metadata table has a Title that is a
\* non-empty, whitespace-normalized string.
C20_TitlesNormalized ==
    (pc = "returned" /\ ~item2title.isNone) =>
      \A r \in RowsOf(item2title.df) :
        /\ TitleOf(r).t = "str"
        /\ Len(TitleOf(r).s) > 0
        /\ Normalized(TitleOf(r).s)

\* the text of an identifier as the raw file writes it
IdText(v) == IF v.t = "int" THEN StrV(IntToText(v.n)) ELSE v
\* the values the records of a JSON file give the field
RawValues(file, name) ==
    {Lookup(LiteralEval(Strip(file.lines[i])).items, name) :
       i \in {j \in 1..Len(file.lines) : LiteralEval(Strip(file.lines[j])).ok}}
\* C21: the ItemID column of the metadata table has the type of the ItemID
\* column of the interaction table of the same run, string for Steam and Yelp
\* and integer for Food and MovieLens, and an identifier of the raw files has
\* one ItemID value, so that the same item has equal ItemID in both tables.
C21_SameItemIdType ==
    (pc = "returned" /\ ~item2title.isNone) =>
      LET kind == IF self.proc \in {"Steam", "Yelp"} THEN "str" ELSE "int" IN
        /\ \A r \in RowsOf(interactions) : r.cells[2].t = kind
        /\ \A r \in RowsOf(item2title.df) : r.cells[1].t = kind
        /\ self.proc = "Steam" =>
             /\ \A r \in RowsOf(interactions) :
                  r.cells[2] \in {IdText(v) : v \in RawValues(raw.inter, "product_id")}
             /\ \A r \in RowsOf(item2title.df) :
                  r.cells[1] \in {IdText(v) : v \in RawValues(raw.meta, "id")}

\* the title ends with (dddd)
EndsWithYear(x) ==
    /\ Len(x) >= 6
    /\ x[Len(x) - 5] = "("
    /\ \A d \in 1..4 : IsDigit(x[Len(x) - 5 + d])
    /\ x[Len(x)] = ")"
\* the title without a trailing (dddd) and the whitespace before it
WithoutTrailingYear(x) ==
    IF EndsWithYear(x) THEN StripSpaceRight(SubSeq(x, 1, Len(x) - 6)) ELSE x
\* the raw title of the record a row of the MovieLens metadata table came from
RawMovieTitle(r) == DecodeReplace(Records(self, raw.meta)[r.idx + 1][2])
\* C22: the MovieLens clean-up removes only a trailing " (YYYY)": a
\* parenthesized four-digit group elsewhere in the title stays, and the
\* characters before the trailing suffix are unchanged.
C22_OnlyTrailingYear ==
    (self.proc = "Movielens" /\ pc = "returned" /\ ~item2title.isNone) =>
      \A r \in RowsOf(item2title.df) :
        TitleOf(r) = StrV(WithoutTrailingYear(RawMovieTitle(r)))

\* the maximal runs of non-whitespace characters of a text, in order
RECURSIVE Words(_, _, _)
Words(x, i, cur) ==
    LET done == IF cur = <<>> THEN <<>> ELSE <<cur>> IN
      IF i > Len(x) THEN done
      ELSE IF IsSpace(x[i]) THEN done \o Words(x, i + 1, <<>>)
      ELSE Words(x, i + 1, Append(cur, x[i]))
\* the raw name of the record a row of the Food metadata table came from
RawFoodName(r) == DecodeReplace(Records(self, raw.meta)[r.idx + 1][1])
\* C23: the Food clean-up strips leading and trailing whitespace and puts
\* exactly one space for every run of whitespace inside the title, keeps the
\* other characters and their order, and is idempotent.
C23_FoodCleanup ==
    (self.proc = "Food" /\ pc = "returned" /\ ~item2title.isNone) =>
      \A r \in RowsOf(item2title.df) :
        ~IsNAText(RawFoodName(r)) =>
          /\ TitleOf(r).t = "str"
          /\ Normalized(TitleOf(r).s)
          /\ Words(TitleOf(r).s, 1, <<>>) = Words(RawFoodName(r), 1, <<>>)
          /\ FoodCleanTitle(TitleOf(r)) = TitleOf(r)
\* the raw name " apple  pie" is returned as "apple pie"
C23_Witness ==
    /\ self.proc = "Food"
    /\ pc = "returned"
    /\ ~item2title.isNone
    /\ \E r \in RowsOf(item2title.df) :
         /\ RawFoodName(r) = <<" ", "apple", " ", " ", "pie">>
         /\ TitleOf(r) = StrV(<<"apple", " ", "pie">>)

\* a non-blank line that is not the literal of a dictionary
NotDictLine(line) == Len(Strip(line)) > 0 /\ ~LiteralEval(Strip(line)).isdict
\* the Steam review file can be opened and decoded
Readable(file) == file.exists /\ ~StrictDecodeFails(file)
\* C24: the Steam reader appends a line as a record only if it parses as a
\* dictionary: a line that is another literal (a number, a string, a list) is
\* reported like an unparseable line and gives no record.
C24_OnlyDictionaries ==
    (Ended /\ self.proc = "Steam" /\ Readable(raw.inter)) =>
      LET bad == SelectSeq(raw.inter.lines, NotDictLine)
          IsDictLine(l) == ~NotDictLine(l)
          clean == SteamLoadData(self, [raw EXCEPT !.inter.lines = SelectSeq(@, IsDictLine)])
      IN /\ Len(diag) >= Len(bad)
         /\ SubSeq(PrintedLines, 1, Len(bad)) = [i \in 1..Len(bad) |-> Strip(bad[i])]
         /\ pc = clean.outcome
         /\ interactions = clean.interactions

\* the lines whose only defect is an event time that does not have the form
\* the processor expects
BadTimeLines(me) ==
    IF me.proc = "Gowalla" THEN GowallaLines.malformed
    ELSE IF me.proc = "Movielens" THEN RatingsLines.malformed
    ELSE IF me.proc = "Food" THEN FoodLines.malformed
    ELSE IF me.proc = "YooChoose"
    THEN {l \in YooChooseLines.malformed : IsIntText(l[3])}
    ELSE IF me.proc = "Steam"
    THEN {l \in SteamReviewLines.malformed : LiteralEval(l).isdict}
    ELSE IF me.proc = "Yelp"
    THEN {l \in YelpReviewLines.malformed : LiteralEval(l).isdict}
    ELSE {}
\* C25: a raw row whose timestamp or date does not have the expected form is
\* dropped and _load_data returns all the other rows.
C25_BadTimeDropsRow ==
    (/\ Ended
     /\ self.proc \in {"Food", "Gowalla", "Movielens", "Steam", "Yelp", "YooChoose"}
     /\ self.proc = "Yelp" => self.meta_available
     /\ RawIn(self, raw, GoodInter(self) \cup BadTimeLines(self), GoodMeta(self))) =>
      /\ pc = "returned"
      /\ Len(interactions.rows) =
           Cardinality({i \in 1..Len(Records(self, raw.inter)) :
                          Records(self, raw.inter)[i] \in GoodInter(self) \ SteamBlank})

\* _load_data of a processor with optional metadata
LoadDataOf(me, files) ==
    IF me.proc = "Food" THEN FoodLoadData(me, files)
    ELSE IF me.proc = "Movielens" THEN MovielensLoadData(me, files)
    ELSE IF me.proc = "Steam" THEN SteamLoadData(me, files)
    ELSE YelpLoadData(me, files)
\* metadata files of every kind: none, empty, well-formed, defective
SomeMetaFiles(me) ==
    {NoFile, File(<<>>)} \cup
    {File(<<l>>) : l \in AnyOf(IF me.proc = "Food" THEN FoodMetaLines
                               ELSE IF me.proc = "Movielens" THEN MoviesLines
                               ELSE IF me.proc = "Steam" THEN SteamGameLines
                               ELSE YelpBusinessLines)}
\* how the part of _load_data before "if self.meta_available" ends
InteractionPart(me, files) == LoadDataOf([me EXCEPT !.meta_available = FALSE], files)
InteractionPartFails(me, files) ==
    /\ InteractionPart(me, files).outcome = "raised"
    /\ InteractionPart(me, files).error # "UnboundLocalError"
\* C26: a processor with optional metadata reads the interaction file first
\* and the metadata file only when meta_available is true: without metadata
\* the call ends the same whatever the metadata file is, and with metadata a
\* failure on the interaction file ends the call before the metadata file is
\* read.
C26_InteractionsFirst ==
    (Ended /\ self.proc \in MetaProcessors) =>
      /\ Len(reads) >= 1
      /\ reads[1] = ReadCalls(self)[1]
      /\ ~self.meta_available =>
           /\ Len(reads) = 1
           /\ \A g \in SomeMetaFiles(self) :
                LoadDataOf(self, [raw EXCEPT !.meta = g]) = LastOutcome
      /\ (self.meta_available /\ InteractionPartFails(self, raw)) =>
           /\ pc = "raised"
           /\ error = InteractionPart(self, raw).error
           /\ Len(reads) = 1
      /\ Len(reads) = 2 => self.meta_available /\ ~InteractionPartFails(self, raw)
\* Food without metadata returns although RAW_recipes.csv is missing
C26_Witness ==
    /\ self.proc = "Food"
    /\ ~self.meta_available
    /\ ~raw.meta.exists
    /\ pc = "returned"
    /\ Len(reads) = 1
    /\ Len(interactions.rows) = 2

NonBlank(line) == Len(Strip(line)) > 0
\* C27: after any prefix of the file the Steam line loop has appended and
\* reported, together, as many lines as the prefix has non-blank lines; a
\* blank line is neither appended nor reported; the appended records are in
\* the order of their lines.
C27_LineAccounting ==
    (Ended /\ self.proc = "Steam" /\ Readable(raw.inter)) =>
      \A k \in 0..Len(raw.inter.lines) :
        LET pre == SubSeq(raw.inter.lines, 1, k)
            loop == LineLoop(pre, 1, <<>>, <<>>)
            parsed == SelectSeq(SelectSeq(pre, NonBlank), Parses)
            failed == SelectSeq(pre, ParseFails)
        IN /\ Len(loop.data) + Len(loop.diag) = Len(SelectSeq(pre, NonBlank))
           /\ loop.data = [i \in 1..Len(parsed) |-> Literal(LiteralEval(Strip(parsed[i])))]
           /\ [i \in 1..Len(loop.diag) |-> loop.diag[i].line] =
                [i \in 1..Len(failed) |-> Strip(failed[i])]
           /\ k = Len(raw.inter.lines) => SubSeq(diag, 1, Len(loop.diag)) = loop.diag
\* a blank line and a well-formed line: one row, no report
C27_Witness ==
    /\ self.proc = "Steam"
    /\ pc = "returned"
    /\ Len(raw.inter.lines) = 2
    /\ raw.inter.lines[1] \in SteamBlank
    /\ raw.inter.lines[2] \in SteamReviewLines.good
    /\ Len(interactions.rows) = 1
    /\ diag = <<>>

\* C28: the Steam reader on a review file in which no line parses, or on an
\* empty file, does not raise and returns a table without rows.
C28_NoRecordNoFailure ==
    (/\ Ended
     /\ self.proc = "Steam"
     /\ ~self.meta_available
     /\ Readable(raw.inter)
     /\ \A i \in 1..Len(raw.inter.lines) : ~Parses(raw.inter.lines[i])) =>
      /\ pc = "returned"
      /\ interactions.rows = <<>>

\* the field of a record of events.csv under the header's column name
Field(file, rec, name) ==
    rec[CHOOSE p \in 1..Len(file.lines[1]) : file.lines[1][p] = <<name>>]
\* C29: RetailRocket selects timestamp, visitorid, event, itemid by name and
\* renames them Timestamp, UserID, Event, ItemID: each returned column holds
\* the values of the raw column it is paired with, whatever the order of the
\* columns in the header of events.csv.
C29_RenamePairsByName ==
    (self.proc = "RetailRocket" /\ pc = "returned") =>
      \A r \in RowsOf(interactions) :
        LET rec == Records(self, raw.inter)[r.idx + 1] IN
          r.cells = <<IntV(ParseInt(Field(raw.inter, rec, "visitorid"))),
                      IntV(ParseInt(Field(raw.inter, rec, "itemid"))),
                      IntV(ParseInt(Field(raw.inter, rec, "timestamp")))>>

====
